---- MODULE Spec2Model ----
(***************************************************************************)
(* Credential pool and rate governor of AINovelLab, with the chapter       *)
(* pipeline that drives it, the files the pipeline keeps for a chapter     *)
(* (output file, cache sidecar) and the batch drivers.                     *)
(*                                                                         *)
(* Two pool classes exist in the repository:                               *)
(*   "key_manager"  src/src/core/novel_condenser/key_manager.py (the one   *)
(*                  main.py and api_service.py use), and                   *)
(*   "api_manager"  src/src/core/api_manager.py.                           *)
(* The variable impl says which class the pool object is an instance of.   *)
(*                                                                         *)
(* Time is counted in ticks of half a second (the shortest sleep of the    *)
(* code).  A section run under the pool lock takes no time: every          *)
(* time.time() read inside one lock section returns the same value.        *)
(***************************************************************************)
EXTENDS Integers, Sequences, FiniteSets, TLC

\* ---------------------------------------------------------------- constants
\* Half-second ticks in n seconds.
Sec(n) == 2 * n

\* clean_expired_requests: records older than 60 seconds are dropped.
WINDOW_SECONDS == 60
WINDOW == Sec(WINDOW_SECONDS)

\* key_manager.get_key_config: max_wait_attempts = 60.
max_wait_attempts == 60
\* api_manager.get_key_config: timeout_sec = 30 (default argument).
timeout_sec == 30
\* wait_time = min(0.5 * 2 ** backoff_count, 5.0): the cap, in seconds.
MAX_WAIT_SECONDS == 5
\* "if wait_attempts % 3 == 0: backoff_count += 1"
BACKOFF_EVERY == 3

DEFAULT_KEY_RPM == 5
DEFAULT_MAX_RPM == 20

\* report_error: errors >= 20 puts the key in skipped_keys.
SKIP_THRESHOLD == 20
\* key_manager.report_error: consecutive_errors >= 3 starts a cooling period
\* of min(30 * 2 ** (consecutive_errors - 3), 600) seconds.
KM_COOL_THRESHOLD == 3
KM_COOL_BASE == 30
KM_COOL_MAX == 600
\* api_manager.report_error, error_type "general": error_count >= 5 sets a
\* cooldown of min(30 * 2 ** min(error_count - 5, 4), 1800) seconds.
AM_COOL_THRESHOLD == 5
AM_COOL_BASE == 30
AM_COOL_MAX_EXP == 4
AM_COOL_MAX == 1800
\* api_manager.report_error, "rate_limit": min(60 * 2 ** min(n - 1, 4), 3600);
\* "invalid_key": 3600.
AM_RATE_BASE == 60
AM_HOUR == 3600

\* key_manager.get_max_concurrency: each rpm counts for at most 15; one
\* worker per 5 rpm of a single key, per 30 rpm of several; at most 10.
free_tier_limit == 15
KM_SINGLE_DIV == 5
KM_MULTI_DIV == 30
KM_CONCURRENCY_CAP == 10
\* api_manager.get_max_concurrency: one worker per 5 rpm of a single key,
\* per 10 rpm of several; at most 10, or 20 with more than 5 keys.
AM_SINGLE_DIV == 5
AM_MULTI_DIV == 10
AM_LARGE_POOL == 5
AM_LARGE_CAP == 20
AM_SMALL_CAP == 10

\* _process_content_with_*: "max_retries = 3", "retry_delay = 5" seconds,
\* "retry_delay_seconds = 60" after an HTTP 429, "+= 5" on a retryDelay
max_retries == 3
retry_delay == 5
retry_delay_seconds == 60
RETRY_INFO_BUFFER == 5

\* process_single_file: max_api_attempts = 3
max_api_attempts == 3
\* api_service.condense_novel_*: "max_chunk_length = 20000", in characters
max_chunk_length == 20000
\* process_single_file: "if len(existing_content) < 300"
MIN_OUTPUT_CHARS == 300
\* process_single_file: '"错误" in existing_content[:100]'
KEYWORD_WINDOW == 100
\* process_single_file: "if len(content) < 100"
MIN_CONTENT_CHARS == 100
\* process_single_file: the length of the longer error_msg, and the place of
\* the word "失败" in "# 脱水处理失败..."
STUB_CHARS == 77
STUB_WORD_AT == 6

\* success_rates are floats in the code; here fixed point, SR_ONE = 1.0.
SR_ONE == 100000

\* ------------------------------------------------------------------- bounds
\* Spec: the clock stops at MaxTime ticks and at most MaxCalls
\* get_key_config calls are issued.
MaxTime == 130
MaxCalls == 3
\* SpecCool: at most CoolCalls calls and CoolReports report_* calls.
CoolCalls == 1
\* SpecLock: at most LockCalls calls and LockReports reports; the clock stops
\* at LockTime ticks.
LockCalls == 3
\* SpecLive: the clock stops at LiveTime ticks, later than the end of six
\* calls of get_key_config that wait 262.5 s each.
LiveTime == 3600
LockReports == 1
LockTime == 4
CoolReports == 3
\* SpecSkip: at most SkipCalls calls; the clock stops at SkipTime ticks.
SkipCalls == 1
SkipTime == 3
\* SpecBan: at most BanCalls calls.
BanCalls == 1
\* SpecPipeline: a chapter has at most MaxChunks segments.
MaxChunks == 2
\* SpecFiles: the program is run MaxRuns times on the chapter.
MaxRuns == 2
\* SpecBatch: a batch has MaxFiles chapters and at most MaxWorkers workers.
MaxFiles == 8
MaxWorkers == 2
\* SpecDriver: a batch has DriverFiles chapters.
DriverFiles == 16
\* SpecLedger: the outcomes of LedgerFiles chapters are recorded.
LedgerFiles == 3
\* At most MaxSuccess of the report_* calls are report_success calls.
MaxSuccess == 1
\* the largest pool get_max_concurrency is computed for
MaxPool == 6
\* calls and reports made in SpecRotate
RotateCalls == 5
RotateReports == 2

\* ---------------------------------------------------------------- variables
VARIABLES
    impl,                       \* "key_manager" or "api_manager"
    api_configs,                \* self.api_configs: key index -> [rpm]
    max_rpm,                    \* self.max_rpm
    lock,                       \* self.lock: the thread that is inside
                                \* "with self.lock" (0: none)
    request_timestamps,         \* self.request_timestamps: key -> deque
    global_request_timestamps,  \* self.global_request_timestamps
    next_key_index,             \* self.next_key_index (key_manager)
    skipped_keys,               \* self.skipped_keys
    success_rates,              \* self.success_rates (key_manager)
    errors,                     \* api_config["errors"] (key_manager)
    consecutive_errors,         \* api_config["consecutive_errors"]
    cooling_until,              \* api_config["cooling_until"]
    key_errors,                 \* self.key_errors (api_manager)
    key_cooldowns,              \* self.key_cooldowns (api_manager)
    now,                        \* time.time(), in ticks
    pc,                         \* thread -> "idle" | "poll" | "sleep"
    wait_attempts,              \* thread -> local wait_attempts
    backoff_count,              \* thread -> local backoff_count
    start_time,                 \* thread -> time the current call began
    wake_at,                    \* thread -> end of the current time.sleep
    call_no,                    \* thread -> number of its current/last call
    reports,                    \* report_* calls made so far
    successes,                  \* report_success calls made so far
    call_log,                   \* per get_key_config call, in order of issue:
                                \* [thread, start, end, ret, key, waited]
    chapter,                    \* process_single_file: the chapter in hand
    adapter_ok,                 \* the keys whose requests the API answers
    batch,                      \* process_files_*: the batch of chapters,
                                \* its workers, counters and ledger
    http,                       \* _process_content_with_*: one call of the
                                \* adapter, its loop and its requests
    ledger,                     \* stats.py: the statistics object and the
                                \* threads that are in update_file_stats
    budget                      \* what one behaviour explores:
                                \* [threads, calls, reports, successes, horizon]

poolVars == <<api_configs, max_rpm, lock, request_timestamps, global_request_timestamps,
              next_key_index, skipped_keys, success_rates, errors,
              consecutive_errors, cooling_until, key_errors, key_cooldowns>>
threadVars == <<pc, wait_attempts, backoff_count, start_time, wake_at, call_no>>
pipeVars == <<chapter, adapter_ok, batch, http, ledger>>
vars == <<impl, poolVars, now, threadVars, reports, successes, call_log, pipeVars, budget>>

Threads == {1, 2}
Keys == DOMAIN api_configs
NumKeys == Cardinality(Keys)

calls == Len(call_log)

\* ------------------------------------------------------------------ helpers
Min2(a, b) == IF a < b THEN a ELSE b
Max2(a, b) == IF a > b THEN a ELSE b
RECURSIVE Pow2(_)
Pow2(n) == IF n <= 0 THEN 1 ELSE 2 * Pow2(n - 1)
SetMin(S) == CHOOSE x \in S : \A y \in S : x <= y
SeqSet(q) == {q[i] : i \in DOMAIN q}

\* collections.deque(maxlen=m).append(x)
DequeAppend(q, x, m) ==
    IF m = 0 THEN <<>>
    ELSE IF Len(q) >= m THEN Append(Tail(q), x)
    ELSE Append(q, x)

\* APIKeyManager._clean_expired_requests, run at clock value t
RECURSIVE clean_expired_requests(_, _)
clean_expired_requests(q, t) ==
    IF q # <<>> /\ t - Head(q) > WINDOW
    THEN clean_expired_requests(Tail(q), t)
    ELSE q

\* APIKeyManager.__init__: a missing or zero rpm becomes DEFAULT_KEY_RPM
InitRpm(r) == IF r = 0 THEN DEFAULT_KEY_RPM ELSE r
\* request_timestamps[key] = deque(maxlen=max(rpm, DEFAULT_KEY_RPM))
KeyMaxlen(i) == Max2(api_configs[i].rpm, DEFAULT_KEY_RPM)

\* ------------------------------------------------- get_key_config, one poll
\* "with self.lock: current_time = time.time()": the lock section of one
\* iteration of the while loop, run at clock value now.

\* self._clean_expired_requests(self.global_request_timestamps)
GlobalCleaned == clean_expired_requests(global_request_timestamps, now)
\* Faulty variant of GlobalFull: the pool is full only above max_rpm
GlobalFull_above == Len(GlobalCleaned) > max_rpm
\* "if len(self.global_request_timestamps) >= self.max_rpm"
GlobalFull == Len(GlobalCleaned) >= max_rpm

\* Faulty variant of km_cooling: the cooling period is not looked at
km_cooling_ignored(i) == cooling_until[i] > now /\ FALSE
\* key_manager: "if api_config.get("cooling_until", 0) > current_time: continue"
km_cooling(i) == cooling_until[i] > now
\* Faulty variant of km_eligible: skipped_keys is not looked at
km_eligible_skipped(i) == ~km_cooling(i)
\* key_manager: the loop "continue"s for a cooling or skipped key
km_eligible(i) == ~km_cooling(i) /\ i \notin skipped_keys

\* api_manager._update_key_cooldowns(current_time)
update_key_cooldowns ==
    [i \in Keys |-> IF key_cooldowns[i] <= now THEN 0 ELSE key_cooldowns[i]]
\* api_manager: "if self.key_cooldowns.get(key_id, 0) > current_time: continue"
am_cooling(i) == update_key_cooldowns[i] > now
am_eligible(i) == i \notin skipped_keys /\ ~am_cooling(i)

Eligible(i) == IF impl = "key_manager" THEN km_eligible(i) ELSE am_eligible(i)

\* "self._clean_expired_requests(self.request_timestamps[key_id])" runs for
\* the keys the loop did not "continue" past
KeyCleaned ==
    [i \in Keys |-> IF Eligible(i)
                    THEN clean_expired_requests(request_timestamps[i], now)
                    ELSE request_timestamps[i]]
\* Faulty variant of HasRoom: a key at its limit still has room
HasRoom_atLimit(i) == Len(KeyCleaned[i]) <= api_configs[i].rpm
\* "if key_rpm < max_key_rpm"
HasRoom(i) == Len(KeyCleaned[i]) < api_configs[i].rpm
available_keys == {i \in Keys : Eligible(i) /\ HasRoom(i)}

RECURSIVE RpmProduct(_)
RpmProduct(S) ==
    IF S = {} THEN 1
    ELSE LET i == CHOOSE x \in S : TRUE
         IN api_configs[i].rpm * RpmProduct(S \ {i})

\* Faulty variant of km_score: the rotation weight is left out
km_score_unrotated(i) ==
    LET n == NumKeys
        P == RpmProduct(Keys)
    IN  5 * success_rates[i] * P * n
        - 3 * SR_ONE * n * Len(KeyCleaned[i]) * (P \div api_configs[i].rpm)
\* key_manager: score = success_rate*0.5 - load_ratio*0.3 + rotation_weight*0.2
\* with load_ratio = key_rpm / max_key_rpm and
\* rotation_weight = 1.0 - ((i - next_key_index) % n) / n,
\* here multiplied by 10 * SR_ONE * n * (product of all rpm) to stay integral.
km_score(i) ==
    LET n == NumKeys
        P == RpmProduct(Keys)
        d == (i - next_key_index) % n
    IN  5 * success_rates[i] * P * n
        - 3 * SR_ONE * n * Len(KeyCleaned[i]) * (P \div api_configs[i].rpm)
        + 2 * SR_ONE * P * (n - d)

\* key_manager: max(available_keys, key=lambda x: x[1]): the first of the
\* candidates (in index order) whose score is the largest
km_selected ==
    CHOOSE i \in available_keys :
        \A j \in available_keys :
            km_score(j) < km_score(i) \/ (km_score(j) = km_score(i) /\ i <= j)

\* api_manager: min(available_keys, key=lambda x: x[1]) on
\* load_ratio = key_rpm / key_max_rpm: the first with the smallest ratio
am_less(i, j) ==
    Len(KeyCleaned[i]) * api_configs[j].rpm < Len(KeyCleaned[j]) * api_configs[i].rpm
am_selected ==
    CHOOSE i \in available_keys :
        \A j \in available_keys : am_less(i, j) \/ (~am_less(j, i) /\ i <= j)

selected_key == IF impl = "key_manager" THEN km_selected ELSE am_selected

\* api_manager: "valid_keys = [...not in self.skipped_keys]; if not valid_keys"
all_skipped == \A i \in Keys : i \in skipped_keys

\* wait_time = min(0.5 * (2 ** backoff_count), 5.0), in ticks
wait_time(k) == Min2((Sec(1) * Pow2(k)) \div 2, Sec(MAX_WAIT_SECONDS))

\* api_manager: max_wait_attempts = timeout_sec * 2
attempt_limit == IF impl = "key_manager" THEN max_wait_attempts ELSE timeout_sec * 2

\* the return of a call: the thread is idle again and the call is logged
Return(t, ret, key) ==
    /\ pc' = [pc EXCEPT ![t] = "idle"]
    /\ call_log' = [call_log EXCEPT ![call_no[t]] =
                      [@ EXCEPT !.end = now, !.ret = ret, !.key = key,
                                !.waited = wait_attempts[t]]]
    /\ UNCHANGED <<wait_attempts, backoff_count, wake_at>>

\* "wait_attempts += 1 ... time.sleep(wait_time)"
Backoff(t) ==
    /\ wait_attempts' = [wait_attempts EXCEPT ![t] = @ + 1]
    /\ backoff_count' = [backoff_count EXCEPT ![t] =
                           IF (wait_attempts[t] + 1) % BACKOFF_EVERY = 0 THEN @ + 1 ELSE @]
    /\ wake_at' = [wake_at EXCEPT ![t] = now + wait_time(backoff_count[t])]
    /\ pc' = [pc EXCEPT ![t] = "sleep"]
    /\ UNCHANGED call_log

\* Faulty variant of TimedOut: the wall clock is not looked at
TimedOut_never(t) == now - start_time[t] > Sec(timeout_sec) /\ FALSE
\* api_manager: "if time.time() - start_time > timeout_sec: return None"
TimedOut(t) == impl = "api_manager" /\ now - start_time[t] > Sec(timeout_sec)

\* no credential this round: key_manager sleeps; api_manager first checks
\* the wall-clock timeout
Blocked(t) ==
    IF TimedOut(t) THEN Return(t, "None", 0) ELSE Backoff(t)

\* The record of the selected key and of the pool are updated
Grant(t, i) ==
    /\ request_timestamps' =
         [KeyCleaned EXCEPT ![i] = DequeAppend(@, now, KeyMaxlen(i))]
    /\ global_request_timestamps' = DequeAppend(GlobalCleaned, now, max_rpm)
    /\ next_key_index' = IF impl = "key_manager" THEN (i + 1) % NumKeys
                         ELSE next_key_index
    /\ Return(t, "key", i)

\* Faulty variant of NoKey: the poll that found no key is recorded as a request
NoKey_recorded(t) ==
    /\ global_request_timestamps' = Append(GlobalCleaned, now)
    /\ request_timestamps' = KeyCleaned
    /\ UNCHANGED next_key_index
    /\ Blocked(t)

\* No key is available: the windows keep what the cleaning left, nothing
\* else of the pool changes, and the caller waits
NoKey(t) ==
    /\ global_request_timestamps' = GlobalCleaned
    /\ request_timestamps' = KeyCleaned
    /\ UNCHANGED next_key_index
    /\ Blocked(t)

\* Faulty variant of unlock: time.sleep is inside the with block
unlock_after_sleep(t, to) == IF to = "idle" THEN 0 ELSE t
\* "with self.lock:" is left before "# 在锁外处理结果": the lock is free
\* when the call returns and when the caller goes to time.sleep; to is where
\* the thread is after the block
unlock(t, to) == IF to \in {"idle", "sleep"} THEN 0 ELSE t
\* "with self.lock:" is entered by thread t for one iteration of the loop
LockPool(t) ==
    /\ pc[t] = "poll"
    /\ lock = 0
    /\ lock' = t
    /\ UNCHANGED <<impl, budget, api_configs, max_rpm, request_timestamps,
                   global_request_timestamps, next_key_index, skipped_keys,
                   success_rates, errors, consecutive_errors, cooling_until,
                   key_errors, key_cooldowns, now, threadVars, reports,
                   successes, call_log, pipeVars>>

\* One iteration of the while loop of get_key_config: the section under the
\* lock and what follows it up to the return or the sleep (the lock is taken
\* here unless LockPool took it)
Poll(t) ==
    /\ pc[t] = "poll"
    /\ lock \in {0, t}
    /\ UNCHANGED <<impl, budget, api_configs, max_rpm, skipped_keys, success_rates, errors,
                   consecutive_errors, cooling_until, key_errors, now,
                   start_time, call_no, reports, successes, pipeVars>>
    /\ IF impl = "api_manager" /\ all_skipped
       THEN /\ Return(t, "None", 0)
            /\ UNCHANGED <<request_timestamps, global_request_timestamps,
                           next_key_index, key_cooldowns>>
       ELSE /\ key_cooldowns' = IF impl = "api_manager" THEN update_key_cooldowns
                                ELSE key_cooldowns
            /\ IF GlobalFull
               THEN /\ global_request_timestamps' = GlobalCleaned
                    /\ UNCHANGED <<request_timestamps, next_key_index>>
                    /\ Blocked(t)
               ELSE IF available_keys = {}
               THEN NoKey(t)
               ELSE Grant(t, selected_key)
    /\ lock' = unlock(t, pc'[t])

\* time.sleep(wait_time) is over: "while wait_attempts < max_wait_attempts"
\* is evaluated again; when it fails the call returns None
Wake(t) ==
    /\ pc[t] = "sleep"
    /\ now >= wake_at[t]
    /\ UNCHANGED <<impl, budget, poolVars, now, start_time, call_no, reports, successes,
                   pipeVars>>
    /\ IF wait_attempts[t] < attempt_limit
       THEN /\ pc' = [pc EXCEPT ![t] = "poll"]
            /\ UNCHANGED <<wait_attempts, backoff_count, wake_at, call_log>>
       ELSE Return(t, "None", 0)

\* get_key_config() is entered by thread t
Enter(t) ==
    /\ pc[t] = "idle"
    /\ t \in budget.threads
    /\ calls < budget.calls
    /\ pc' = [pc EXCEPT ![t] = "poll"]
    /\ wait_attempts' = [wait_attempts EXCEPT ![t] = 0]
    /\ backoff_count' = [backoff_count EXCEPT ![t] = 0]
    /\ start_time' = [start_time EXCEPT ![t] = now]
    /\ call_no' = [call_no EXCEPT ![t] = calls + 1]
    /\ call_log' = Append(call_log, [thread |-> t, start |-> now, end |-> 0,
                                     ret |-> "pending", key |-> 0, waited |-> 0])
    /\ UNCHANGED <<impl, budget, poolVars, now, wake_at, reports, successes>>

\* A thread calls get_key_config()
Call(t) == Enter(t) /\ UNCHANGED pipeVars

\* ------------------------------------------------------------ report_error
\* success_rates[key] = current_rate * 0.9 (+ 0.1 on success)
ema_failure(r) == (r * 9) \div 10
ema_success(r) == (r * 9) \div 10 + SR_ONE \div 10

\* key_manager: cooling_time = min(30 * (2 ** (consecutive_errors - 3)), 600)
km_cooling_time(ce) == Min2(KM_COOL_BASE * Pow2(ce - KM_COOL_THRESHOLD), KM_COOL_MAX)
\* Faulty variant of km_must_cool: the key is cooled one error later
km_must_cool_late(ce) == ce > KM_COOL_THRESHOLD
\* key_manager: "if api_config["consecutive_errors"] >= 3"
km_must_cool(ce) == ce >= KM_COOL_THRESHOLD
\* Faulty variant of must_skip: the key is skipped one error later
must_skip_late(e) == e > SKIP_THRESHOLD
\* "if api_config["errors"] >= 20" / "if error_count >= 20"
must_skip(e) == e >= SKIP_THRESHOLD

\* key_manager.APIKeyManager.report_error(key)
km_report_error(k) ==
    /\ impl = "key_manager"
    /\ success_rates' = [success_rates EXCEPT ![k] = ema_failure(@)]
    /\ errors' = [errors EXCEPT ![k] = @ + 1]
    /\ consecutive_errors' = [consecutive_errors EXCEPT ![k] = @ + 1]
    /\ cooling_until' =
         IF km_must_cool(consecutive_errors[k] + 1)
         THEN [cooling_until EXCEPT
                 ![k] = now + Sec(km_cooling_time(consecutive_errors[k] + 1))]
         ELSE cooling_until
    /\ skipped_keys' = IF must_skip(errors[k] + 1) THEN skipped_keys \cup {k}
                       ELSE skipped_keys
    /\ UNCHANGED <<api_configs, max_rpm, lock, request_timestamps,
                   global_request_timestamps, next_key_index, key_errors,
                   key_cooldowns>>

\* Faulty variant of km_report_success: a success also clears the total
km_report_success_forgiving(k) ==
    /\ impl = "key_manager"
    /\ success_rates' = [success_rates EXCEPT ![k] = ema_success(@)]
    /\ consecutive_errors' = [consecutive_errors EXCEPT ![k] = 0]
    /\ errors' = [errors EXCEPT ![k] = 0]
    /\ UNCHANGED <<api_configs, max_rpm, lock, request_timestamps,
                   global_request_timestamps, next_key_index, skipped_keys,
                   cooling_until, key_errors, key_cooldowns>>

\* key_manager.APIKeyManager.report_success(key)
km_report_success(k) ==
    /\ impl = "key_manager"
    /\ success_rates' = [success_rates EXCEPT ![k] = ema_success(@)]
    /\ consecutive_errors' = [consecutive_errors EXCEPT ![k] = 0]
    /\ UNCHANGED <<api_configs, max_rpm, lock, request_timestamps,
                   global_request_timestamps, next_key_index, skipped_keys,
                   errors, cooling_until, key_errors, key_cooldowns>>

ErrorTypes == {"general", "rate_limit", "invalid_key"}

\* api_manager.report_error: cooldown_time for an error count below 20
am_cooldown_time(error_type, error_count) ==
    IF error_type = "rate_limit"
    THEN Min2(AM_RATE_BASE * Pow2(Min2(error_count - 1, AM_COOL_MAX_EXP)), AM_HOUR)
    ELSE IF error_type = "invalid_key" THEN AM_HOUR
    ELSE IF error_count >= AM_COOL_THRESHOLD
    THEN Min2(AM_COOL_BASE * Pow2(Min2(error_count - AM_COOL_THRESHOLD, AM_COOL_MAX_EXP)),
              AM_COOL_MAX)
    ELSE 0

\* api_manager.APIKeyManager.report_error(key, error_type)
am_report_error(k, error_type) ==
    /\ impl = "api_manager"
    /\ key_errors' = [key_errors EXCEPT ![k] = @ + 1]
    /\ LET error_count == key_errors[k] + 1
           cooldown_time == IF must_skip(error_count) THEN 0
                            ELSE am_cooldown_time(error_type, error_count)
       IN  /\ skipped_keys' = IF must_skip(error_count) THEN skipped_keys \cup {k}
                              ELSE skipped_keys
           /\ key_cooldowns' = IF cooldown_time > 0
                               THEN [key_cooldowns EXCEPT ![k] = now + Sec(cooldown_time)]
                               ELSE key_cooldowns
    /\ UNCHANGED <<api_configs, max_rpm, lock, request_timestamps,
                   global_request_timestamps, next_key_index, success_rates,
                   errors, consecutive_errors, cooling_until>>

\* api_manager.APIKeyManager.report_success(key)
am_report_success(k) ==
    /\ impl = "api_manager"
    /\ key_errors' = [key_errors EXCEPT ![k] = 0]
    /\ UNCHANGED <<api_configs, max_rpm, lock, request_timestamps,
                   global_request_timestamps, next_key_index, skipped_keys,
                   success_rates, errors, consecutive_errors, cooling_until,
                   key_cooldowns>>

\* A client of the pool reports a failed request made with key k
ReportError(k) ==
    /\ reports < budget.reports
    /\ reports' = reports + 1
    /\ \/ km_report_error(k)
       \/ \E error_type \in ErrorTypes : am_report_error(k, error_type)
    /\ UNCHANGED <<impl, budget, now, threadVars, successes, call_log, pipeVars>>

\* A client of the pool reports a successful request made with key k
ReportSuccess(k) ==
    /\ reports < budget.reports
    /\ successes < budget.successes
    /\ reports' = reports + 1
    /\ successes' = successes + 1
    /\ \/ km_report_success(k)
       \/ am_report_success(k)
    /\ UNCHANGED <<impl, budget, now, threadVars, call_log, pipeVars>>

\* -------------------------------------------------------------------- clock
\* The clock values at which something changes for the pool: a sleep ends, a
\* recorded request is exactly 60 s old (still counted) or just older
\* (dropped), a cooling period ends.
Stamps ==
    SeqSet(global_request_timestamps)
    \cup UNION {SeqSet(request_timestamps[i]) : i \in Keys}
Events ==
    {wake_at[t] : t \in {u \in Threads : pc[u] = "sleep"}}
    \cup {s + WINDOW : s \in Stamps} \cup {s + WINDOW + 1 : s \in Stamps}
    \cup {cooling_until[i] : i \in Keys} \cup {key_cooldowns[i] : i \in Keys}
Due == {e \in Events : e > now /\ e <= budget.horizon}

\* Time passes up to the next such value.  A thread that can run does so
\* first: lock sections take no time and a sleep ends when it is due.
Tick ==
    /\ \A t \in Threads : pc[t] # "poll" /\ (pc[t] = "sleep" => wake_at[t] > now)
    /\ Due # {}
    /\ now' = SetMin(Due)
    /\ UNCHANGED <<impl, budget, poolVars, threadVars, reports, successes, call_log,
                   pipeVars>>

\* --------------------------------------------------------------------- Init
\* APIKeyManager.__init__(api_configs, max_rpm) with the rpm values raw
\* (0 stands for a missing rpm)
Construct(kind, raw, global) ==
    /\ impl = kind
    /\ api_configs = [i \in 0..(Len(raw) - 1) |-> [rpm |-> InitRpm(raw[i + 1])]]
    /\ max_rpm = global
    /\ lock = 0
    /\ request_timestamps = [i \in 0..(Len(raw) - 1) |-> <<>>]
    /\ global_request_timestamps = <<>>
    /\ next_key_index = 0
    /\ skipped_keys = {}
    /\ success_rates = [i \in 0..(Len(raw) - 1) |-> SR_ONE]
    /\ errors = [i \in 0..(Len(raw) - 1) |-> 0]
    /\ consecutive_errors = [i \in 0..(Len(raw) - 1) |-> 0]
    /\ cooling_until = [i \in 0..(Len(raw) - 1) |-> 0]
    /\ key_errors = [i \in 0..(Len(raw) - 1) |-> 0]
    /\ key_cooldowns = [i \in 0..(Len(raw) - 1) |-> 0]

ThreadsInit ==
    /\ now = 0
    /\ pc = [t \in Threads |-> "idle"]
    /\ wait_attempts = [t \in Threads |-> 0]
    /\ backoff_count = [t \in Threads |-> 0]
    /\ start_time = [t \in Threads |-> 0]
    /\ wake_at = [t \in Threads |-> 0]
    /\ call_no = [t \in Threads |-> 0]
    /\ reports = 0
    /\ successes = 0
    /\ call_log = <<>>

\* No chapter is being processed
NoChapter ==
    [stage |-> "none", chunks |-> 0, chunk |-> 0, api_attempt |-> 0, held |-> 0,
     outcome |-> "none", acquired |-> <<>>, requests |-> <<>>,
     length |-> 0, kinds |-> {}, parts |-> <<>>, result |-> <<>>,
     run |-> 0, force |-> FALSE, faulty |-> FALSE, status |-> "none",
     input |-> [id |-> 0, directory |-> FALSE, blank |-> FALSE,
                encoding |-> "utf-8", readable |-> TRUE],
     output |-> [exists |-> FALSE, text |-> <<>>],
     sidecar |-> [state |-> "none", hash |-> 0, text |-> <<>>],
     written |-> [done |-> FALSE, text |-> <<>>],
     prev |-> "none", won |-> FALSE]
\* No batch is being processed
NoBatch ==
    [mode |-> "none", profiles |-> <<>>, next |-> 0, workers |-> <<>>,
     ledger |-> <<>>, success_count |-> 0, completed_count |-> 0,
     failed_files |-> {}, all_keys_skipped |-> FALSE, main |-> "none",
     exit_code |-> 0 - 1, max_concurrency |-> 0,
     api_type |-> "none", openai |-> [errors |-> 0, skipped |-> FALSE],
     all_openai_keys_skipped |-> FALSE, cancel |-> "none",
     progress_stopped |-> FALSE, late |-> FALSE,
     ui |-> "none", lock |-> 0, progress |-> [calls |-> 0, held |-> FALSE],
     files_to_process |-> <<>>, OUTPUT_DIR |-> <<>>, output_files |-> <<>>,
     cache_files |-> <<>>]
\* No update of the statistics is being followed
NoLedger == [statistics |-> <<>>, workers |-> <<>>, todo |-> <<>>, applied |-> <<>>]
\* No call of the adapter is being followed
NoHttp ==
    [family |-> "none", stage |-> "idle", retry |-> 0, iter |-> 0, sent |-> 0,
     answers |-> <<>>, began |-> 0, result |-> "none"]
NoPipeline ==
    /\ chapter = NoChapter /\ adapter_ok = {} /\ batch = NoBatch /\ http = NoHttp
    /\ ledger = NoLedger

Impls == {"key_manager", "api_manager"}

\* Pools the specifications are run on: [rpm values (0: no rpm given), max_rpm]
PoolConfigs == { <<(<<1, 1>>), 3>>, <<(<<2>>), 1>> }
TwoKeys == <<(<<1, 1>>), 2>>
OneKey == <<(<<1>>), 2>>
\* Scenario S1: one credential with rpm 3, global limit 100
S1Pool == <<(<<3>>), 100>>

\* Spec: any number of threads call get_key_config at any time.
Init ==
    /\ NoPipeline
    /\ \E kind \in Impls : \E c \in PoolConfigs : Construct(kind, c[1], c[2])
    /\ ThreadsInit
    /\ budget = [threads |-> Threads, calls |-> MaxCalls, reports |-> 0, successes |-> 0,
                 horizon |-> MaxTime]

Next ==
    \/ \E t \in Threads : Call(t)
    \/ \E t \in Threads : Poll(t)
    \/ \E t \in Threads : Wake(t)
    \/ Tick

Spec == Init /\ [][Next]_vars

\* The pool with clients that call and report at any time
NextHealth ==
    \/ \E t \in Threads : Call(t)
    \/ \E t \in Threads : Poll(t)
    \/ \E t \in Threads : Wake(t)
    \/ \E k \in Keys : ReportError(k)
    \/ \E k \in Keys : ReportSuccess(k)
    \/ Tick

\* SpecCool: one or two credentials, one calling thread, a few reports made
\* at any time, one window of time.
InitCool ==
    /\ NoPipeline
    /\ \E kind \in Impls : \E c \in {OneKey, TwoKeys} : Construct(kind, c[1], c[2])
    /\ ThreadsInit
    /\ budget = [threads |-> {1}, calls |-> CoolCalls, reports |-> CoolReports,
                 successes |-> MaxSuccess, horizon |-> MaxTime]

SpecCool == InitCool /\ [][NextHealth]_vars

\* SpecLock: two threads call and clients report at any time; entering "with
\* self.lock" is a step of its own, and a report (whose whole body is under
\* the lock) waits until the lock is free.
InitLock ==
    /\ NoPipeline
    /\ \E kind \in Impls : \E c \in {OneKey, TwoKeys} : Construct(kind, c[1], c[2])
    /\ ThreadsInit
    /\ budget = [threads |-> Threads, calls |-> LockCalls, reports |-> LockReports,
                 successes |-> LockReports, horizon |-> LockTime]
NextLock ==
    \/ \E t \in Threads : Call(t)
    \/ \E t \in Threads : LockPool(t)
    \/ \E t \in Threads : lock = t /\ Poll(t)
    \/ \E t \in Threads : Wake(t)
    \/ \E k \in Keys : lock = 0 /\ ReportError(k)
    \/ \E k \in Keys : lock = 0 /\ ReportSuccess(k)
    \/ Tick

SpecLock == InitLock /\ [][NextLock]_vars

\* SpecSkip: one credential, one calling thread, enough reports made at any
\* time to cross the skip threshold.
InitSkip ==
    /\ NoPipeline
    /\ \E kind \in Impls : Construct(kind, OneKey[1], OneKey[2])
    /\ ThreadsInit
    /\ budget = [threads |-> {1}, calls |-> SkipCalls, reports |-> SKIP_THRESHOLD + 1,
                 successes |-> MaxSuccess, horizon |-> SkipTime]

SpecSkip == InitSkip /\ [][NextHealth]_vars

\* Scenario S3: one credential and one client thread; the outcomes of earlier
\* requests are reported at clock 0 while no call is in progress; the calls
\* then run to their end.
InitS3 ==
    /\ NoPipeline
    /\ \E kind \in Impls : Construct(kind, OneKey[1], OneKey[2])
    /\ ThreadsInit
    /\ budget = [threads |-> {1}, calls |-> 2, reports |-> SKIP_THRESHOLD,
                 successes |-> 0, horizon |-> Sec(300)]

Quiet == now = 0 /\ \A t \in Threads : pc[t] = "idle"
InjectError(k) == Quiet /\ ReportError(k)
InjectSuccess(k) == Quiet /\ ReportSuccess(k)

NextS3 ==
    \/ \E t \in Threads : Call(t)
    \/ \E t \in Threads : Poll(t)
    \/ \E t \in Threads : Wake(t)
    \/ \E k \in Keys : InjectError(k)
    \/ Tick

SpecS3 == InitS3 /\ [][NextS3]_vars

\* SpecBan: as S3, with successes among the reported outcomes and one window
\* of time.
InitBan ==
    /\ NoPipeline
    /\ \E kind \in Impls : Construct(kind, OneKey[1], OneKey[2])
    /\ ThreadsInit
    /\ budget = [threads |-> {1}, calls |-> BanCalls, reports |-> SKIP_THRESHOLD + 1,
                 successes |-> MaxSuccess, horizon |-> MaxTime]

NextBan ==
    \/ \E t \in Threads : Call(t)
    \/ \E t \in Threads : Poll(t)
    \/ \E t \in Threads : Wake(t)
    \/ \E k \in Keys : InjectError(k)
    \/ \E k \in Keys : InjectSuccess(k)
    \/ Tick

SpecBan == InitBan /\ [][NextBan]_vars

\* Scenario S1: one thread issues five calls one after the other as fast as
\* possible: the clock does not advance while it could issue one.
InitS1 ==
    /\ NoPipeline
    /\ \E kind \in Impls : Construct(kind, S1Pool[1], S1Pool[2])
    /\ ThreadsInit
    /\ budget = [threads |-> {1}, calls |-> 5, reports |-> 0, successes |-> 0,
                 horizon |-> Sec(300)]

TickS1 ==
    /\ \A t \in budget.threads : pc[t] = "idle" => calls >= budget.calls
    /\ Tick

NextS1 ==
    \/ \E t \in Threads : Call(t)
    \/ \E t \in Threads : Poll(t)
    \/ \E t \in Threads : Wake(t)
    \/ TickS1

SpecS1 == InitS1 /\ [][NextS1]_vars

\* SpecRotate: a key_manager pool of two or three credentials, one thread
\* that calls again and again, a few reports, one window of time.
RotatePools == { <<(<<2, 2, 2>>), 4>>, <<(<<1, 3>>), 4>> }
InitRotate ==
    /\ NoPipeline
    /\ \E c \in RotatePools : Construct("key_manager", c[1], c[2])
    /\ ThreadsInit
    /\ budget = [threads |-> {1}, calls |-> RotateCalls, reports |-> RotateReports,
                 successes |-> MaxSuccess, horizon |-> MaxTime]

SpecRotate == InitRotate /\ [][NextHealth]_vars

\* ------------------------------------------------------ get_max_concurrency
RECURSIVE SumRpm(_)
\* total_rpm = sum(api_config.get('rpm', DEFAULT_KEY_RPM) for api_config in ...)
SumRpm(S) ==
    IF S = {} THEN 0
    ELSE LET i == CHOOSE x \in S : TRUE
         IN api_configs[i].rpm + SumRpm(S \ {i})
RECURSIVE AdjustedRpm(_)
\* key_manager: "actual_rpm = min(key_rpm, free_tier_limit);
\* adjusted_rpm += actual_rpm"
AdjustedRpm(S) ==
    IF S = {} THEN 0
    ELSE LET i == CHOOSE x \in S : TRUE
         IN Min2(api_configs[i].rpm, free_tier_limit) + AdjustedRpm(S \ {i})

\* Faulty variant of km_get_max_concurrency: the rpm values count in full
km_get_max_concurrency_unadjusted ==
    IF NumKeys = 0 THEN 1
    ELSE LET safest_concurrency ==
                 IF NumKeys = 1 THEN Max2(1, SumRpm(Keys) \div KM_SINGLE_DIV)
                 ELSE Max2(1, SumRpm(Keys) \div KM_MULTI_DIV)
         IN Min2(safest_concurrency, KM_CONCURRENCY_CAP)
\* key_manager.APIKeyManager.get_max_concurrency(): each rpm counts for at
\* most free_tier_limit; int(x / d) of a non-negative x is x \div d
km_get_max_concurrency ==
    IF NumKeys = 0 THEN 1
    ELSE LET adjusted_rpm == AdjustedRpm(Keys)
             safest_concurrency ==
                 IF NumKeys = 1 THEN Max2(1, adjusted_rpm \div KM_SINGLE_DIV)
                 ELSE Max2(1, adjusted_rpm \div KM_MULTI_DIV)
         IN Min2(safest_concurrency, KM_CONCURRENCY_CAP)

total_rpm == SumRpm(Keys)
\* api_manager.APIKeyManager.get_max_concurrency()
am_get_max_concurrency ==
    IF NumKeys = 0 THEN 1
    ELSE LET rpm_based_concurrency ==
                 IF NumKeys = 1 THEN Max2(1, total_rpm \div AM_SINGLE_DIV)
                 ELSE Max2(Max2(1, total_rpm \div AM_MULTI_DIV),
                           Max2(1, NumKeys \div 2))
             concurrency == Min2(rpm_based_concurrency, max_rpm)
         IN IF NumKeys > AM_LARGE_POOL
            THEN Min2(Max2(concurrency, NumKeys), AM_LARGE_CAP)
            ELSE Min2(concurrency, AM_SMALL_CAP)

get_max_concurrency ==
    IF impl = "key_manager" THEN km_get_max_concurrency ELSE am_get_max_concurrency

\* main(): "max_concurrency = 0 ... gemini_concurrency =
\* gemini_key_manager.get_max_concurrency(); max_concurrency =
\* gemini_concurrency"
ComputeConcurrency ==
    /\ batch.main = "none"
    /\ batch.max_concurrency = 0
    /\ batch' = [batch EXCEPT !.max_concurrency = get_max_concurrency]
    /\ UNCHANGED <<impl, budget, poolVars, now, threadVars, reports, successes,
                   call_log, chapter, adapter_ok, http, ledger>>

\* SpecConcurrency: pools of up to MaxPool credentials with small, default
\* (0: no rpm given) and large rpm values, with a small and the default
\* global limit; the ceiling is computed once.
RpmValues == {0, 4, 16, 60}
GlobalValues == {1, DEFAULT_MAX_RPM}
InitConcurrency ==
    /\ NoPipeline
    /\ \E kind \in Impls, n \in 0..MaxPool, g \in GlobalValues :
          \E raw \in [1..n -> RpmValues] : Construct(kind, raw, g)
    /\ ThreadsInit
    /\ budget = [threads |-> {}, calls |-> 0, reports |-> 0, successes |-> 0,
                 horizon |-> 0]

SpecConcurrency == InitConcurrency /\ [][ComputeConcurrency]_vars

\* ------------------------------------------------------------- the adapter
\* _process_content_with_gemini / _process_content_with_openai: one call,
\* for one segment with one credential.  What the server does with a request
\* is one of
\*   "ok":        200, a body with text that is not blank;
\*   "blank":     200, a body whose text is empty or white space;
\*   "fields":    200, JSON without the expected fields;
\*   "garbage":   200, a body that is no JSON (response.json() raises);
\*   "429":       429, JSON with error.message, no RetryInfo;
\*   "429hint":   429, JSON with error.message and RetryInfo.retryDelay
\*                "<HintSeconds>s";
\*   "429plain":  429, JSON without error.message;
\*   "429text":   429, a body that is no JSON;
\*   "500":       another status;
\*   "timeout":   requests.exceptions.Timeout;
\*   "refused":   another exception of requests.post.
\* http.iter is the position of the iterator of "range(max_retries)",
\* http.retry the loop variable, http.sent the number of requests posted,
\* http.result what the call returned ("None" for None).
Families == {"gemini", "openai"}
Answers == {"ok", "blank", "fields", "garbage", "429", "429hint", "429plain",
            "429text", "500", "timeout", "refused"}
HintSeconds == 58

\* Faulty variant of Accepted: a blank text is returned as well
Accepted_blank(answer) == answer \in {"ok", "blank"}
\* "if condensed_text.strip(): return condensed_text.strip()" /
\* "if condensed_text: return condensed_text"
Accepted(answer) == answer = "ok"
\* the string returned for an accepted answer
Body(answer) == IF answer = "ok" THEN "text" ELSE ""

\* The seconds slept on the quota branch, 0 - 1 when the branch is not taken:
\* gemini enters it under "if "error" in error_json and "message" in ...",
\* openai for every 429 whose body is JSON and without reading RetryInfo
quota_delay(family, answer) ==
    IF family = "gemini"
    THEN IF answer = "429" THEN retry_delay_seconds
         ELSE IF answer = "429hint" THEN HintSeconds + RETRY_INFO_BUFFER
         ELSE 0 - 1
    ELSE IF answer \in {"429", "429hint", "429plain"} THEN retry_delay_seconds
         ELSE 0 - 1

\* "if retry < max_retries - 1: sleep_time = retry_delay * (2 ** retry)"
sleep_time(retry) == IF retry < max_retries - 1 THEN retry_delay * Pow2(retry) ELSE 0

\* Faulty variant of range_next: the loop goes on from the loop variable
range_next_rewound(iter, retry) == retry + 1
\* "for retry in range(max_retries)": the next value comes from the iterator,
\* whatever was assigned to retry in the body
range_next(iter, retry) == iter + 1

httpFrame ==
    UNCHANGED <<impl, budget, poolVars, threadVars, reports, successes, call_log,
                chapter, adapter_ok, batch, ledger>>

\* _process_content_with_*(content, api_key, ...) is called
HttpCall(family) ==
    /\ http.stage = "idle"
    /\ http' = [NoHttp EXCEPT !.family = family, !.stage = "loop", !.began = now]
    /\ UNCHANGED now
    /\ httpFrame

\* One pass of the for loop: the request is posted, the answer is dealt with
\* and the sleep that follows it is over
HttpAttempt(answer) ==
    /\ http.stage = "loop"
    /\ http.iter < max_retries
    /\ LET retry == http.iter
           quota == quota_delay(http.family, answer)
           posted == [http EXCEPT !.sent = @ + 1, !.answers = Append(@, answer)]
       IN  IF Accepted(answer)
           THEN /\ http' = [posted EXCEPT !.stage = "returned", !.retry = retry,
                                          !.result = Body(answer)]
                /\ UNCHANGED now
           ELSE IF quota >= 0
           THEN \* "time.sleep(retry_delay_seconds); if retry == max_retries
                \* - 1: retry -= 1; continue"
                LET after == IF retry = max_retries - 1 THEN retry - 1 ELSE retry
                IN  /\ http' = [posted EXCEPT !.retry = after,
                                              !.iter = range_next(http.iter, after)]
                    /\ now' = now + Sec(quota)
           ELSE /\ http' = [posted EXCEPT !.retry = retry,
                                          !.iter = range_next(http.iter, retry)]
                /\ now' = now + Sec(sleep_time(retry))
    /\ httpFrame

\* The iterator is exhausted: "return None"
HttpGiveUp ==
    /\ http.stage = "loop"
    /\ http.iter >= max_retries
    /\ http' = [http EXCEPT !.stage = "returned", !.result = "None"]
    /\ UNCHANGED now
    /\ httpFrame

\* SpecAdapter: one call of either adapter against a server that answers
\* each request in any of the ways above.
InitAdapter ==
    /\ chapter = NoChapter /\ adapter_ok = {} /\ batch = NoBatch
    /\ http = NoHttp
    /\ ledger = NoLedger
    /\ Construct("key_manager", OneKey[1], OneKey[2])
    /\ ThreadsInit
    /\ budget = [threads |-> {}, calls |-> 0, reports |-> 0, successes |-> 0,
                 horizon |-> 0]

NextAdapter ==
    \/ \E family \in Families : HttpCall(family)
    \/ \E answer \in Answers : HttpAttempt(answer)
    \/ HttpGiveUp

SpecAdapter == InitAdapter /\ [][NextAdapter]_vars

\* ----------------------------------------------------------------- pipeline
\* process_single_file on one chapter, run by thread Worker with the
\* key_manager pool.  A request to the API made with key k returns text when
\* k is in adapter_ok and None (after the adapter's own retries) otherwise.
\* chapter.chunks is the number of 20000-character segments of the content:
\* 1 when the content is sent in one request.
Worker == 1

\* Faulty variant of Failed: the loop does not end after three attempts
Failed_unbounded(ch) ==
    IF all_skipped
    THEN [ch EXCEPT !.stage = "done", !.outcome = "failed"]
    ELSE [ch EXCEPT !.stage = "attempt", !.api_attempt = @ + 1]
\* condense_novel_gemini returned None: "if result is None and ...: if not
\* valid_keys: all_keys_skipped = True; break"; "elif gemini_key_manager and
\* api_key_config: report_error" is not run, api_key_config being None in
\* process_single_file; then the next api_attempt, if one is left
Failed(ch) ==
    IF all_skipped \/ ch.api_attempt + 1 >= max_api_attempts
    THEN [ch EXCEPT !.stage = "done", !.outcome = "failed"]
    ELSE [ch EXCEPT !.stage = "attempt", !.api_attempt = @ + 1]
AttemptFailed == chapter' = Failed(chapter)

\* "if result: success = True; break"
Succeeded(ch) == [ch EXCEPT !.stage = "done", !.outcome = "success"]
AttemptSucceeded == chapter' = Succeeded(chapter)

\* Faulty variant of total_chunks: the quotient is rounded down
total_chunks_floor(L) == Max2(L \div max_chunk_length, 1)
\* "total_chunks = (content_length + chunk_size - 1) // chunk_size"
total_chunks(L) == (L + max_chunk_length - 1) \div max_chunk_length
\* The number of requests a content of L characters is sent in: "if
\* content_length <= max_chunk_length: return _process_content_with_gemini(
\* content, ...)"
Chunks(L) == IF L <= max_chunk_length THEN 1 ELSE total_chunks(L)
\* Segment i (from 1; the code counts from 0) of a content of L characters,
\* as the slice content[start_pos:end_pos]: "start_pos = i * chunk_size;
\* end_pos = min(start_pos + chunk_size, content_length)"; the whole content
\* when it is sent at once
Segment(L, i) ==
    IF L <= max_chunk_length THEN <<0, L>>
    ELSE <<(i - 1) * max_chunk_length, Min2((i - 1) * max_chunk_length + max_chunk_length, L)>>

\* The text the API returns for request number n, made for the slice seg;
\* kind tells what the text looks like (see Kinds)
Response(seg, n, kind) == [seg |-> seg, req |-> n, kind |-> kind]
\* The two newlines put between the texts of the segments
Newlines == [seg |-> <<0, 0>>, req |-> 0, kind |-> "\n\n"]
\* "\n\n".join(condensed_chunks)
RECURSIVE Join(_)
Join(parts) ==
    IF Len(parts) <= 1 THEN parts
    ELSE <<Head(parts), Newlines>> \o Join(Tail(parts))

\* The kinds of text the answer for the segment in hand can be of: what the
\* program looks at in a text is its length and its first 100 characters, so
\* the answers for the later segments are all taken to be of kind "plain"
KindsAt(ch) == IF ch.chunk <= 1 THEN ch.kinds ELSE ch.kinds \cap {"plain"}

\* _process_content_with_gemini(segment, api_key, ...): one request of the
\* running attempt, made with the key that get_key_config call number c of
\* the worker returned; ok: text of the given kind came back, and is kept
\* ("condensed_chunks.append(condensed_chunk)").  The API answers a key of
\* adapter_ok at the first HTTP request and fails every request of another
\* key: "sent" is the number of HTTP requests of the call, "at" the clock
\* when it began.
Requested(ch, k, ok, kind) ==
    LET seg == Segment(ch.length, ch.chunk)
        n == Len(ch.requests) + 1
    IN  [ch EXCEPT !.requests = Append(@, [attempt |-> ch.api_attempt,
                                           chunk |-> ch.chunk, seg |-> seg,
                                           key |-> k, call |-> call_no[Worker],
                                           ok |-> ok, at |-> now,
                                           sent |-> IF ok THEN 1 ELSE max_retries]),
                   !.parts = IF ok THEN Append(@, Response(seg, n, kind)) ELSE @]

\* process_single_file reaches the loop "for api_attempt in range(3)"
PipeStart ==
    /\ chapter.stage = "new"
    /\ chapter' = [chapter EXCEPT !.stage = "attempt", !.api_attempt = 0]
    /\ UNCHANGED <<impl, budget, poolVars, now, threadVars, reports, successes,
                   call_log, adapter_ok, batch, http, ledger>>

\* condense_novel_*: "if not content or len(content.strip()) == 0" for a
\* content that process_single_file found to be not empty
is_blank(input) == input.blank

\* condense_novel_gemini(content, None, key_manager) is called: 'return ""'
\* for a content of white space, which is neither None nor a result: the
\* loop of attempts goes on to its end; for any other content
\* "api_key_config = key_manager.get_key_config()"
PipeAcquire ==
    /\ chapter.stage = "attempt"
    /\ IF is_blank(chapter.input)
       THEN /\ chapter' = IF chapter.api_attempt + 1 >= max_api_attempts
                          THEN [chapter EXCEPT !.stage = "done", !.outcome = "failed"]
                          ELSE [chapter EXCEPT !.api_attempt = @ + 1]
            /\ UNCHANGED <<impl, budget, poolVars, now, threadVars, reports,
                           successes, call_log>>
       ELSE /\ Enter(Worker)
            /\ chapter' = [chapter EXCEPT !.stage = "acquire",
                                           !.acquired = Append(@, call_no'[Worker])]
    /\ UNCHANGED <<adapter_ok, batch, http, ledger>>

\* get_key_config has returned: None ends the attempt; content of one
\* segment is sent at once and its result returned; longer content is sent
\* segment by segment
PipeAcquired ==
    /\ chapter.stage = "acquire"
    /\ pc[Worker] = "idle"
    /\ LET r == call_log[call_no[Worker]]
           ch == [chapter EXCEPT !.chunk = 1, !.parts = <<>>]
       IN  IF r.ret = "None" THEN AttemptFailed
           ELSE IF chapter.chunks = 1
           THEN IF r.key \in adapter_ok
                THEN \E kind \in chapter.kinds :
                        LET sent == Requested(ch, r.key, TRUE, kind)
                        IN  chapter' = Succeeded([sent EXCEPT !.result = sent.parts])
                ELSE chapter' = Failed(Requested(ch, r.key, FALSE, "none"))
           ELSE chapter' = [ch EXCEPT !.stage = "chunk", !.held = r.key]
    /\ UNCHANGED <<impl, budget, poolVars, now, threadVars, reports, successes,
                   call_log, adapter_ok, batch, http, ledger>>

\* One segment is sent with the key in hand; "if condensed_chunk is None:
\* key_manager.report_error(api_key)"
PipeChunk ==
    /\ chapter.stage = "chunk"
    /\ IF chapter.held \in adapter_ok
       THEN /\ \E kind \in KindsAt(chapter) :
                 chapter' = IF chapter.chunk < chapter.chunks
                            THEN [Requested(chapter, chapter.held, TRUE, kind)
                                      EXCEPT !.chunk = @ + 1]
                            ELSE [Requested(chapter, chapter.held, TRUE, kind)
                                      EXCEPT !.stage = "join"]
            /\ UNCHANGED poolVars
       ELSE /\ km_report_error(chapter.held)
            /\ chapter' = [Requested(chapter, chapter.held, FALSE, "none")
                               EXCEPT !.stage = "chunk_failed"]
    /\ UNCHANGED <<impl, budget, now, threadVars, reports, successes, call_log,
                   adapter_ok, batch, http, ledger>>

\* "api_key_config = key_manager.get_key_config()" after a failed segment
PipeReacquire ==
    /\ chapter.stage = "chunk_failed"
    /\ Enter(Worker)
    /\ chapter' = [chapter EXCEPT !.stage = "reacquire"]
    /\ UNCHANGED <<adapter_ok, batch, http, ledger>>

\* The segment is sent once more with the new key, if there is one
PipeRetried ==
    /\ chapter.stage = "reacquire"
    /\ pc[Worker] = "idle"
    /\ LET r == call_log[call_no[Worker]]
       IN  IF r.ret = "None" THEN AttemptFailed
           ELSE IF r.key \notin adapter_ok
           THEN chapter' = Failed(Requested(chapter, r.key, FALSE, "none"))
           ELSE \E kind \in KindsAt(chapter) :
                  chapter' = IF chapter.chunk < chapter.chunks
                             THEN [Requested(chapter, r.key, TRUE, kind)
                                       EXCEPT !.stage = "chunk", !.chunk = @ + 1,
                                              !.held = r.key]
                             ELSE [Requested(chapter, r.key, TRUE, kind)
                                       EXCEPT !.stage = "join", !.held = r.key]
    /\ UNCHANGED <<impl, budget, poolVars, now, threadVars, reports, successes,
                   call_log, adapter_ok, batch, http, ledger>>

\* "condensed_content = join(...); key_manager.report_success(api_key)"
PipeJoin ==
    /\ chapter.stage = "join"
    /\ km_report_success(chapter.held)
    /\ chapter' = Succeeded([chapter EXCEPT !.result = Join(chapter.parts)])
    /\ UNCHANGED <<impl, budget, now, threadVars, reports, successes, call_log,
                   adapter_ok, batch, http, ledger>>

\* The lengths of content the chapters have: those of at most MaxChunks
\* segments among the ones next to a multiple of 20000
Lengths ==
    {L \in UNION {{n * max_chunk_length - 1, n * max_chunk_length,
                   n * max_chunk_length + 1} : n \in 1..MaxChunks} :
        Chunks(L) <= MaxChunks}
\* The chapter when process_single_file reaches the condense step
NewChapter(L) ==
    [NoChapter EXCEPT !.stage = "new", !.length = L, !.chunks = Chunks(L),
                      !.outcome = "pending", !.kinds = {"plain"}]

\* SpecPipeline: one chapter of one to MaxChunks segments, two keys (A is
\* key 0, B is key 1), any set of keys answered by the API.
InitPipeline ==
    /\ Construct("key_manager", TwoKeys[1], TwoKeys[2])
    /\ ThreadsInit
    /\ \E L \in Lengths : chapter = NewChapter(L)
    /\ adapter_ok \in SUBSET (0..1)
    /\ http = NoHttp
    /\ ledger = NoLedger
    /\ batch = NoBatch
    /\ budget = [threads |-> {Worker}, calls |-> 2 * max_api_attempts, reports |-> 0,
                 successes |-> 0, horizon |-> MaxTime]

NextPipeline ==
    \/ PipeStart
    \/ PipeAcquire
    \/ \E t \in Threads : Poll(t)
    \/ \E t \in Threads : Wake(t)
    \/ PipeAcquired
    \/ PipeChunk
    \/ PipeReacquire
    \/ PipeRetried
    \/ PipeJoin
    \/ Tick

SpecPipeline == InitPipeline /\ [][NextPipeline]_vars

\* The key_manager pool late in a session: key 0 has 19 errors behind it, the
\* last request made with it succeeded; key 1 has reached 20 errors and is
\* skipped; the cooling periods and the request windows have run out (the
\* clock counts from that moment).
RECURSIVE Iterate(_, _)
Iterate(n, r) == IF n = 0 THEN r ELSE ema_failure(Iterate(n - 1, r))
WornPool ==
    /\ impl = "key_manager"
    /\ api_configs = [i \in 0..1 |-> [rpm |-> InitRpm(TwoKeys[1][i + 1])]]
    /\ max_rpm = TwoKeys[2]
    /\ lock = 0
    /\ request_timestamps = [i \in 0..1 |-> <<>>]
    /\ global_request_timestamps = <<>>
    /\ next_key_index = 0
    /\ skipped_keys = {1}
    /\ success_rates = (0 :> ema_success(Iterate(SKIP_THRESHOLD - 1, SR_ONE))
                        @@ 1 :> Iterate(SKIP_THRESHOLD, SR_ONE))
    /\ errors = (0 :> SKIP_THRESHOLD - 1 @@ 1 :> SKIP_THRESHOLD)
    /\ consecutive_errors = (0 :> 0 @@ 1 :> SKIP_THRESHOLD)
    /\ cooling_until = [i \in 0..1 |-> 0]
    /\ key_errors = [i \in 0..1 |-> 0]
    /\ key_cooldowns = [i \in 0..1 |-> 0]

\* SpecWorn: the chapter of SpecPipeline, on a new pool or on a worn one.
InitWorn ==
    \/ InitPipeline
    \/ /\ WornPool
       /\ ThreadsInit
       /\ \E L \in Lengths : chapter = NewChapter(L)
       /\ adapter_ok \in SUBSET (0..1)
       /\ http = NoHttp
       /\ ledger = NoLedger
       /\ batch = NoBatch
       /\ budget = [threads |-> {Worker}, calls |-> 2 * max_api_attempts, reports |-> 0,
                    successes |-> 0, horizon |-> Sec(300)]

SpecWorn == InitWorn /\ [][NextPipeline]_vars

\* ------------------------------------------------------- files of a chapter
\* process_single_file from its first line, run MaxRuns times (each run a
\* new process with a new pool) on one chapter.  chapter.input is the chapter
\* file (its content is known by id and chapter.length), chapter.output the
\* file of the same name in the output directory, chapter.sidecar the file
\* .cache/<name>.json, chapter.status the outcome update_file_stats was called
\* with in the run.  In a run with chapter.faulty set, writing or removing a
\* file can fail.
\*
\* The texts the API returns are of three kinds: "plain" (300 characters,
\* none of the words "错误", "失败" in the first 100), "short" (299
\* characters), "flagged" (300 characters, one of the words at characters
\* 98 and 99).
Kinds == {"plain", "short", "flagged"}
KindLen(kind) ==
    CASE kind = "short" -> MIN_OUTPUT_CHARS - 1
      [] kind = "stub" -> STUB_CHARS
      [] kind = "\n\n" -> 2
      [] kind = "copy" -> 0
      [] OTHER -> MIN_OUTPUT_CHARS
\* Where the first of the words begins in a text of the kind, -1: nowhere
KindWordAt(kind) ==
    CASE kind = "flagged" -> KEYWORD_WINDOW - 2
      [] kind = "stub" -> STUB_WORD_AT
      [] OTHER -> 0 - 1
\* len(text); a copy of the chapter file has the length of its slice
RECURSIVE TextLen(_)
TextLen(text) ==
    IF text = <<>> THEN 0
    ELSE (IF Head(text).kind = "copy" THEN Head(text).seg[2] - Head(text).seg[1]
          ELSE KindLen(Head(text).kind)) + TextLen(Tail(text))
\* "len(existing_content) < 300"
TooShort(text) == TextLen(text) < MIN_OUTPUT_CHARS
\* '"错误" in existing_content[:100] or "失败" in existing_content[:100]': a
\* word of two characters lies in the first 100 (it is looked for in the
\* first answer of the text, which is at least 100 characters long)
ErrorWords(text) ==
    /\ text # <<>>
    /\ KindWordAt(Head(text).kind) >= 0
    /\ KindWordAt(Head(text).kind) + 2 <= KEYWORD_WINDOW
\* Faulty variant of Stub: a text of 300 characters without an error word
\* in its first 100
Stub_clean == <<Response(<<0, 0>>, 0, "plain")>>
\* error_msg of process_single_file
Stub == <<Response(<<0, 0>>, 0, "stub")>>
\* The content of the chapter file, as written to the output directory
Copy(ch) == <<Response(<<0, ch.length>>, 0, "copy")>>
\* hashlib.md5(content.encode('utf-8')).hexdigest(): the contents of the
\* chapter file are told apart by id, and so are their hashes
Md5(input) == [md5 |-> input.id]

\* An attempt to write or remove a file succeeds unless the run is one where
\* it can fail
Outcomes(ch) == IF ch.faulty THEN BOOLEAN ELSE {TRUE}
\* save_to_output_dir(file_path, text): "with open(output_path, 'w') ...
\* f.write(content)"; on an exception the error is logged and None returned
Saved(ch, text, ok) ==
    IF ok THEN [ch EXCEPT !.output = [exists |-> TRUE, text |-> text],
                          !.written = [done |-> TRUE, text |-> text]]
    ELSE ch
\* os.remove(output_file) in "try: ... except: logger.warning(...)"
Removed(ch, ok) ==
    IF ok THEN [ch EXCEPT !.output = [exists |-> FALSE, text |-> <<>>]] ELSE ch
\* create_cache_for_file(content, condensed_content, file_path); on an
\* exception "return False"
Cached(ch, text, ok) ==
    IF ok THEN [ch EXCEPT !.sidecar = [state |-> "ok", hash |-> Md5(ch.input),
                                       text |-> text]]
    ELSE ch
\* Faulty variant of get_cached_content: the sidecar is not looked at
get_cached_content_none(ch) == <<>>
\* Faulty variant of get_cached_content: the hash is not compared
get_cached_content_any(ch) ==
    IF ch.length > 0 /\ ch.sidecar.state = "ok" THEN ch.sidecar.text ELSE <<>>
\* get_cached_content(file_path): the text kept, <<>> for None
get_cached_content(ch) ==
    IF /\ ch.length > 0
       /\ ch.sidecar.state = "ok"
       /\ ch.sidecar.hash = Md5(ch.input)
    THEN ch.sidecar.text
    ELSE <<>>
\* update_file_stats(file_path, status, ...) and the return
Closed(ch, status) == [ch EXCEPT !.stage = "closed", !.status = status]

fileFrame ==
    UNCHANGED <<impl, budget, poolVars, now, threadVars, reports, successes,
                call_log, adapter_ok, batch, http, ledger>>

\* "if os.path.exists(output_file) and not force_regenerate": an output that
\* is too short or begins with an error word is removed, any other makes the
\* chapter "skipped"
PipeCheck ==
    /\ chapter.stage = "file"
    /\ IF chapter.output.exists /\ ~chapter.force
       THEN IF TooShort(chapter.output.text) \/ ErrorWords(chapter.output.text)
            THEN \E ok \in Outcomes(chapter) :
                    chapter' = [Removed(chapter, ok) EXCEPT !.stage = "read"]
            ELSE chapter' = Closed(chapter, "skipped")
       ELSE chapter' = [chapter EXCEPT !.stage = "read"]
    /\ fileFrame

\* read_text_file: "encodings = ['utf-8', 'gbk', 'gb2312', 'utf-16',
\* 'latin-1']"
encodings == <<"utf-8", "gbk", "gb2312", "utf-16", "latin-1">>
\* open(file_path, 'r', encoding=enc).read() returns the text: the bytes of
\* a file of Chinese text decode in the encoding they were written in, and
\* any bytes decode in latin-1; a file that cannot be opened raises OSError
Decodes(input, enc) ==
    input.readable /\ (enc = input.encoding \/ enc = "latin-1")
\* read_text_file(file_path): len() of the content returned: "for encoding
\* in encodings: try: ... return content; except UnicodeDecodeError:
\* continue; except Exception: break" and 'return ""'
read_text_file(ch) ==
    IF \E i \in DOMAIN encodings : Decodes(ch.input, encodings[i])
    THEN ch.length ELSE 0
\* read_file(file_path): len() of the content returned: "content =
\* read_text_file(file_path); if content: return content; with
\* open(file_path, 'r', encoding='utf-8') as f: content = f.read(); return
\* content; except Exception as e: ... return """
read_file(ch) ==
    IF read_text_file(ch) > 0 THEN read_text_file(ch)
    ELSE IF Decodes(ch.input, "utf-8") THEN ch.length ELSE 0
\* save_directory_file(file_path): "try: with open(file_path, 'r',
\* encoding='utf-8') as src_file: content = src_file.read(); return
\* save_to_output_dir(file_path, content, ...); except Exception: ... return
\* None"
save_directory_file(ch, ok) ==
    IF Decodes(ch.input, "utf-8") THEN Saved(ch, Copy(ch), ok) ELSE ch

\* "try: content = read_file(file_path); except Exception: ...
\* update_file_stats(file_path, "error", ...)" (read_file raises nothing) and
\* what follows, as far as the loop of attempts: empty content, the cache, a
\* directory file, short content
PipeRead ==
    /\ chapter.stage = "read"
    /\ IF read_file(chapter) = 0
       THEN chapter' = Closed(chapter, "empty")
       ELSE IF ~chapter.force /\ get_cached_content(chapter) # <<>>
       THEN \E ok \in Outcomes(chapter) :
               chapter' = Closed(Saved(chapter, get_cached_content(chapter), ok),
                                 "success-cached")
       ELSE IF chapter.input.directory
       THEN \E ok \in Outcomes(chapter) :
               chapter' = Closed(save_directory_file(chapter, ok), "success-directory")
       ELSE IF chapter.length < MIN_CONTENT_CHARS
       THEN \E ok \in Outcomes(chapter) :
               chapter' = Closed(Saved(chapter, Copy(chapter), ok), "success-short")
       ELSE chapter' = [chapter EXCEPT !.stage = "new"]
    /\ fileFrame

\* After the loop: "if success and result: save_condensed_novel(...);
\* create_cache_for_file(...); update_file_stats(file_path, "success", ...)",
\* "else: ... save_condensed_novel(file_path, error_msg) ...
\* update_file_stats(file_path, "failed", ...)"
PipeFinish ==
    /\ chapter.stage = "done"
    /\ IF chapter.outcome = "success" /\ chapter.result # <<>>
       THEN \E ok1, ok2 \in Outcomes(chapter) :
               chapter' = Closed(Cached(Saved(chapter, chapter.result, ok1),
                                        chapter.result, ok2), "success")
       ELSE \E ok \in Outcomes(chapter) :
               chapter' = Closed(Saved(chapter, Stub, ok), "failed")
    /\ fileFrame

\* The program is run again: a new process, with a new pool and a new clock;
\* the chapter file may have been edited in between, and the files of the
\* output directory are as the run before left them
NextRun ==
    /\ chapter.stage = "closed"
    /\ chapter.run < MaxRuns
    /\ \E force \in BOOLEAN, edited \in BOOLEAN :
          chapter' = [chapter EXCEPT
                        !.stage = "file", !.run = @ + 1, !.force = force,
                        !.chunk = 0, !.api_attempt = 0, !.held = 0,
                        !.outcome = "pending", !.acquired = <<>>, !.requests = <<>>,
                        !.parts = <<>>, !.result = <<>>, !.status = "none",
                        !.written = [done |-> FALSE, text |-> <<>>],
                        !.input = IF edited THEN [@ EXCEPT !.id = @ + 1] ELSE @,
                        !.prev = chapter.status,
                        !.won = ~edited /\ (chapter.won \/ chapter.status = "success")]
    /\ adapter_ok' \in SUBSET Keys
    /\ http' = http
    /\ ledger' = ledger
    /\ request_timestamps' = [i \in Keys |-> <<>>]
    /\ global_request_timestamps' = <<>>
    /\ next_key_index' = 0
    /\ skipped_keys' = {}
    /\ success_rates' = [i \in Keys |-> SR_ONE]
    /\ errors' = [i \in Keys |-> 0]
    /\ consecutive_errors' = [i \in Keys |-> 0]
    /\ cooling_until' = [i \in Keys |-> 0]
    /\ now' = 0
    /\ wait_attempts' = [t \in Threads |-> 0]
    /\ backoff_count' = [t \in Threads |-> 0]
    /\ start_time' = [t \in Threads |-> 0]
    /\ wake_at' = [t \in Threads |-> 0]
    /\ call_no' = [t \in Threads |-> 0]
    /\ call_log' = <<>>
    /\ UNCHANGED <<impl, budget, api_configs, max_rpm, lock, key_errors, key_cooldowns, pc,
                   reports, successes, batch>>

\* The pool of SpecFiles: one credential of 6 requests a minute
FilePool == <<(<<6>>), DEFAULT_MAX_RPM>>
\* The lengths of the chapter file: empty, short, sent at once, sent in two
\* segments; a file of the two middle lengths may be all white space
FileLengths == {0, MIN_CONTENT_CHARS - 1, MIN_CONTENT_CHARS, max_chunk_length + 1}
\* What the output directory holds before the first run: no output file;
\* no sidecar, or one that cannot be read
FoundOutputs == {[exists |-> FALSE, text |-> <<>>]}
\* The encodings of the chapter file: UTF-8, or GBK (a file that is copied,
\* being a directory file or short); the file may be one that cannot be opened
FileEncodings == {"utf-8", "gbk"}
FoundSidecars ==
    {[state |-> "none", hash |-> 0, text |-> <<>>],
     [state |-> "corrupt", hash |-> 0, text |-> <<>>]}

\* SpecFiles: one chapter, MaxRuns runs of the program.
InitFiles ==
    /\ Construct("key_manager", FilePool[1], FilePool[2])
    /\ ThreadsInit
    /\ \E L \in FileLengths, dir, blank, force, faulty, readable \in BOOLEAN,
          enc \in FileEncodings, out \in FoundOutputs, side \in FoundSidecars :
          /\ dir => L = MIN_CONTENT_CHARS
          /\ blank => ~dir /\ L \in {MIN_CONTENT_CHARS - 1, MIN_CONTENT_CHARS}
          /\ enc # "utf-8" => ~blank /\ (dir \/ L = MIN_CONTENT_CHARS - 1)
          /\ ~readable => ~dir /\ ~blank /\ enc = "utf-8" /\ L = MIN_CONTENT_CHARS
          /\ chapter = [NoChapter EXCEPT
                          !.stage = "file", !.run = 1, !.force = force,
                          !.faulty = faulty, !.length = L, !.chunks = Chunks(L),
                          !.outcome = "pending", !.kinds = Kinds,
                          !.input = [id |-> 1, directory |-> dir, blank |-> blank,
                                     encoding |-> enc, readable |-> readable],
                          !.output = out, !.sidecar = side]
    /\ adapter_ok \in SUBSET {0}
    /\ http = NoHttp
    /\ ledger = NoLedger
    /\ batch = NoBatch
    /\ budget = [threads |-> {Worker}, calls |-> 2 * max_api_attempts, reports |-> 0,
                 successes |-> 0, horizon |-> MaxTime]

NextFiles ==
    \/ PipeCheck
    \/ PipeRead
    \/ NextPipeline
    \/ PipeFinish
    \/ NextRun

SpecFiles == InitFiles /\ [][NextFiles]_vars

\* -------------------------------------------------------------------- batch
\* main() with process_files_sequentially or process_files_concurrently on a
\* batch of chapters and the key_manager pool of one credential, which is
\* gemini_key_manager. batch.api_type is the api_type argument; in mixed mode
\* batch.openai is openai_key_manager, a second pool of one credential, kept
\* as the credential's "errors" and its membership of skipped_keys.
\* batch.all_keys_skipped is all_gemini_keys_skipped. batch.cancel tells
\* whether cancellation was requested and how; batch.late is not a variable
\* of the program: it records that a task was started after the request.
\* batch.openai.skipped: the pool has no valid key (its credential is in
\* skipped_keys, or the family has no credential configured).  In a worker,
\* "calls" is the number of condense_novel_* calls made for its chapter;
\* one_live is not a variable of the program: it records that one family
\* only had a valid key when the chapter was taken.
\* process_single_file is taken attempt by attempt: what it does with a
\* chapter is told by the chapter's profile:
\*   "done": the output file is there and passes the checks: "skipped";
\*   "bad":  the chapter is sent in segments and the API fails every request
\*           (the key being obtained whenever one is left): each attempt
\*           reports one error, and the chapter ends "failed".
\* batch.ledger[f] is statistics["file_stats"][path of chapter f], "none"
\* while there is no entry.
Files == 1..Len(batch.profiles)
BatchKey == 0
IdleWorker ==
    [stage |-> "idle", file |-> 0, api_attempt |-> 0, status |-> FALSE,
     family |-> "none", calls |-> 0, one_live |-> FALSE]
batchFrame ==
    UNCHANGED <<impl, budget, now, threadVars, reports, successes, call_log,
                chapter, adapter_ok, http, ledger>>

\* update_file_stats(file_path, status, ...):
\* statistics["file_stats"][file_path] = file_stats
update_file_stats(b, f, status) == [b EXCEPT !.ledger[f] = status]

\* A worker thread of the executor takes the next submitted task (the tasks
\* are started in the order of submission); the sequential loop takes the
\* next chapter
Take(w) ==
    /\ batch.main = "running"
    /\ batch.workers[w].stage = "idle"
    /\ batch.next <= Len(batch.profiles)
    /\ batch' = [batch EXCEPT
                   !.next = @ + 1,
                   !.late = @ \/ batch.cancel # "none",
                   !.workers[w] = [stage |-> IF batch.mode = "concurrent"
                                             THEN "check" ELSE "attempt",
                                   file |-> batch.next, api_attempt |-> 0,
                                   status |-> FALSE,
                                   family |-> IF batch.mode = "concurrent"
                                              THEN "none" ELSE batch.api_type,
                                   calls |-> 0,
                                   one_live |-> batch.api_type = "mixed"
                                                /\ all_skipped # batch.openai.skipped]]
    /\ UNCHANGED poolVars
    /\ batchFrame

\* all_api_keys_skipped: "api_type == "gemini" and all_gemini_keys_skipped",
\* "api_type == "mixed" and all_gemini_keys_skipped and
\* all_openai_keys_skipped"
all_api_keys_skipped(b) ==
    \/ b.api_type = "gemini" /\ b.all_keys_skipped
    \/ b.api_type = "mixed" /\ b.all_keys_skipped /\ b.all_openai_keys_skipped

\* process_file: "with keys_skipped_lock: if api_type == "gemini" and
\* all_gemini_keys_skipped: return False ... elif api_type == "mixed" and
\* all_gemini_keys_skipped and all_openai_keys_skipped: return False";
\* "current_api_type = api_type"
CheckSkipped(w) ==
    /\ batch.workers[w].stage = "check"
    /\ batch' = IF all_api_keys_skipped(batch)
                THEN [batch EXCEPT !.workers[w] = IdleWorker]
                ELSE IF batch.api_type = "mixed"
                THEN [batch EXCEPT !.workers[w].stage = "choose"]
                ELSE [batch EXCEPT !.workers[w].stage = "attempt",
                                   !.workers[w].family = batch.api_type]
    /\ UNCHANGED poolVars
    /\ batchFrame

\* Faulty variant of parity_family: the parity of the position counted from 0
parity_family_from_zero(file_index) ==
    IF (file_index - 1) % 2 = 0 THEN "gemini" ELSE "openai"
\* "gemini" if file_index % 2 == 0 else "openai"
parity_family(file_index) == IF file_index % 2 = 0 THEN "gemini" ELSE "openai"

\* "executor.submit(process_file, file_path, i+1)": the file_index of the
\* chapter at position i of the list, which is chapter i + 1 of Files
file_index(f) == f

\* process_file in mixed mode: "with keys_skipped_lock: if
\* all_gemini_keys_skipped and not all_openai_keys_skipped: current_api_type
\* = "openai"; elif all_openai_keys_skipped and not all_gemini_keys_skipped:
\* current_api_type = "gemini"; else: current_api_type = "gemini" if
\* file_index % 2 == 0 else "openai""
Choose(w) ==
    /\ batch.workers[w].stage = "choose"
    /\ LET current_api_type ==
               IF batch.all_keys_skipped /\ ~batch.all_openai_keys_skipped
               THEN "openai"
               ELSE IF batch.all_openai_keys_skipped /\ ~batch.all_keys_skipped
               THEN "gemini"
               ELSE parity_family(file_index(batch.workers[w].file))
       IN  batch' = [batch EXCEPT !.workers[w].stage = "attempt",
                                  !.workers[w].family = current_api_type]
    /\ UNCHANGED poolVars
    /\ batchFrame

\* openai_key_manager.report_error(key): "api_config["errors"] += 1; if
\* api_config["errors"] >= 20: self.skipped_keys.add(key)"
openai_report_error(o) ==
    [errors |-> o.errors + 1, skipped |-> o.skipped \/ must_skip(o.errors + 1)]

\* process_single_file on the worker's chapter: the whole of it for a "done"
\* chapter, one pass of the loop of attempts for a "bad" one: 'if api_type ==
\* "gemini": for api_attempt in range(max_api_attempts): ... elif api_type
\* == "openai": for api_attempt in range(max_api_attempts): ...', and for
\* any other api_type no loop: "if success and result: ... else:" the
\* chapter is recorded "failed"
Process(w) ==
    /\ batch.workers[w].stage = "attempt"
    /\ LET f == batch.workers[w].file
           ended(status, ok) ==
               [update_file_stats(batch, f, status) EXCEPT
                   !.workers[w].stage = "count", !.workers[w].status = ok]
       IN  IF batch.profiles[f] = "done"
           THEN /\ batch' = ended("skipped", TRUE)
                /\ UNCHANGED poolVars
           ELSE IF batch.workers[w].family \notin {"gemini", "openai"}
           THEN /\ batch' = ended("failed", FALSE)
                /\ UNCHANGED poolVars
           ELSE IF batch.workers[w].family = "openai"
           THEN /\ UNCHANGED poolVars
                /\ batch' =
                     IF batch.openai.skipped
                     THEN [ended("failed", FALSE) EXCEPT !.workers[w].calls = @ + 1]
                     ELSE LET o == openai_report_error(batch.openai)
                          IN  IF \/ o.skipped
                                 \/ batch.workers[w].api_attempt + 1 >= max_api_attempts
                              THEN [ended("failed", FALSE) EXCEPT
                                       !.openai = o, !.workers[w].calls = @ + 1]
                              ELSE [batch EXCEPT !.workers[w].api_attempt = @ + 1,
                                                 !.workers[w].calls = @ + 1,
                                                 !.openai = o]
           ELSE IF all_skipped
           THEN /\ batch' = [ended("failed", FALSE) EXCEPT !.workers[w].calls = @ + 1]
                /\ UNCHANGED poolVars
           ELSE /\ km_report_error(BatchKey)
                /\ batch' =
                     IF \/ \A i \in Keys : i \in skipped_keys'
                        \/ batch.workers[w].api_attempt + 1 >= max_api_attempts
                     THEN [ended("failed", FALSE) EXCEPT !.workers[w].calls = @ + 1]
                     ELSE [batch EXCEPT !.workers[w].api_attempt = @ + 1,
                                        !.workers[w].calls = @ + 1]
    /\ batchFrame

\* process_file: "with lock:" is entered: the worker takes the lock that
\* guards completed_count, success_count and failed_files
LockCounters(w) ==
    /\ batch.workers[w].stage = "count"
    /\ batch.mode = "concurrent"
    /\ batch.lock = 0
    /\ batch' = [batch EXCEPT !.lock = w]
    /\ UNCHANGED poolVars
    /\ batchFrame

\* update_progress_func(completed_count, total_files) is called, by a worker
\* that holds the locks of held: batch.progress tells how many times the
\* callback was called and whether the caller of the last call held a lock
update_progress_func(b, held) ==
    [b EXCEPT !.progress = [calls |-> @.calls + 1, held |-> held # {}]]

\* "with lock: completed_count += 1; if status: success_count += 1; else:
\* failed_files[file_path] = 0; if update_progress_func:
\* update_progress_func(completed_count, total_files)", and the lock is
\* released (the sequential loop has no lock, no completed_count and no
\* callback, and goes on to the next chapter); the GUI passes a callback,
\* main() passes none
Count(w) ==
    /\ batch.workers[w].stage = "count"
    /\ batch.mode = "concurrent" => batch.lock = w
    /\ batch' = [(IF batch.mode = "concurrent" /\ batch.ui = "gui"
                  THEN update_progress_func(batch, {l \in {"lock"} : batch.lock = w})
                  ELSE batch) EXCEPT
                   !.lock = 0,
                   !.completed_count = IF batch.mode = "concurrent" THEN @ + 1 ELSE @,
                   !.success_count = IF batch.workers[w].status THEN @ + 1 ELSE @,
                   !.failed_files = IF batch.workers[w].status THEN @
                                    ELSE @ \cup {batch.workers[w].file},
                   !.workers[w] = IF batch.mode = "concurrent"
                                  THEN [@ EXCEPT !.stage = "keys"] ELSE IdleWorker]
    /\ UNCHANGED poolVars
    /\ batchFrame

\* "if (current_api_type == "gemini" or api_type == "mixed") and
\* gemini_key_manager ...: valid_keys = [... if conf['key'] not in
\* gemini_key_manager.skipped_keys]; if not valid_keys: with
\* keys_skipped_lock: all_gemini_keys_skipped = True", the same for
\* openai_key_manager, and "return status"; the task being done, the loop
\* over as_completed(futures) makes a pass: "if progress_stopped.is_set():
\* for f in futures: if not f.done(): f.cancel()", after which no task that
\* has not begun is run
CheckKeys(w) ==
    /\ batch.workers[w].stage = "keys"
    /\ batch' = [batch EXCEPT
                   !.all_keys_skipped =
                       @ \/ ((batch.workers[w].family = "gemini"
                                 \/ batch.api_type = "mixed") /\ all_skipped),
                   !.all_openai_keys_skipped =
                       @ \/ ((batch.workers[w].family = "openai"
                                 \/ batch.api_type = "mixed") /\ batch.openai.skipped),
                   !.next = IF batch.progress_stopped
                            THEN Len(batch.profiles) + 1 ELSE @,
                   !.workers[w] = IdleWorker]
    /\ UNCHANGED poolVars
    /\ batchFrame

\* WorkerThread.stop(): "if hasattr(process_files_concurrently,
\* 'progress_stopped')": progress_stopped is a local variable of
\* process_files_concurrently, the function object has no such attribute
has_progress_stopped == FALSE

\* WorkerThread.stop() while the batch runs: "self.is_running = False ...
\* if hasattr(process_files_concurrently, 'progress_stopped'):
\* process_files_concurrently.progress_stopped.set()"
Stop ==
    /\ batch.main = "running"
    /\ batch.mode = "concurrent"
    /\ batch.ui = "gui"
    /\ batch.cancel = "none"
    /\ batch' = [batch EXCEPT
                   !.cancel = "stop",
                   !.progress_stopped = @ \/ has_progress_stopped]
    /\ UNCHANGED poolVars
    /\ batchFrame

\* KeyboardInterrupt in the main thread while it is in "with
\* concurrent.futures.ThreadPoolExecutor(...) as executor": the block is
\* left through executor.__exit__, which is shutdown(wait=True): the tasks
\* submitted are all run before "except KeyboardInterrupt" is entered
Interrupt ==
    /\ batch.main = "running"
    /\ batch.mode = "concurrent"
    /\ batch.ui = "cli"
    /\ batch.cancel = "none"
    /\ batch' = [batch EXCEPT !.cancel = "interrupt"]
    /\ UNCHANGED poolVars
    /\ batchFrame

\* Every task has ended: "except KeyboardInterrupt: for file_path in
\* files_to_process: if file_path not in failed_files and
\* files_to_process.index(file_path) >= completed_count:
\* failed_files[file_path] = 0"; "if all_api_keys_skipped: ... for i,
\* file_path in enumerate(files_to_process): if i >= completed_count:
\* failed_files[file_path] = 0"; "return success_count, failed_files"
BatchReturn ==
    /\ batch.main = "running"
    /\ batch.next > Len(batch.profiles)
    /\ \A w \in DOMAIN batch.workers : batch.workers[w].stage = "idle"
    /\ batch' = [batch EXCEPT
                   !.main = "returned",
                   !.failed_files =
                       IF /\ batch.mode = "concurrent"
                          /\ batch.cancel = "interrupt" \/ all_api_keys_skipped(batch)
                       THEN @ \cup {f \in Files : f - 1 >= batch.completed_count}
                       ELSE @]
    /\ UNCHANGED poolVars
    /\ batchFrame

\* main(): "finalize_statistics(); print_processing_summary(failed_files)"
\* and the return; novel_condenser.py calls sys.exit(1) only in its except
\* clauses, so the process ends with exit code 0
Exit ==
    /\ batch.main = "returned"
    /\ batch' = [batch EXCEPT !.main = "exited", !.exit_code = 0]
    /\ UNCHANGED poolVars
    /\ batchFrame

\* The batches: every chapter "bad", but for at most one "done" chapter; and
\* every chapter "done"
Profiles ==
    {[f \in 1..MaxFiles |-> IF f = d THEN "done" ELSE "bad"] : d \in 0..MaxFiles}
    \cup {[f \in 1..MaxFiles |-> "done"]}

\* SpecBatch: main() on a batch, sequential ("--sequential" or one worker)
\* or concurrent with two to MaxWorkers workers.
InitBatch ==
    /\ Construct("key_manager", OneKey[1], OneKey[2])
    /\ ThreadsInit
    /\ chapter = NoChapter
    /\ adapter_ok = {}
    /\ http = NoHttp
    /\ ledger = NoLedger
    /\ \E P \in Profiles, n \in 1..MaxWorkers :
          batch = [NoBatch EXCEPT
                     !.mode = IF n = 1 THEN "sequential" ELSE "concurrent",
                     !.api_type = "gemini", !.ui = "cli",
                     !.profiles = P, !.next = 1,
                     !.workers = [w \in 1..n |-> IdleWorker],
                     !.ledger = [f \in 1..MaxFiles |-> "none"],
                     !.main = "running"]
    /\ budget = [threads |-> {}, calls |-> 0, reports |-> 0, successes |-> 0,
                 horizon |-> 0]

NextBatch ==
    \/ \E w \in DOMAIN batch.workers : Take(w)
    \/ \E w \in DOMAIN batch.workers : CheckSkipped(w)
    \/ \E w \in DOMAIN batch.workers : Process(w)
    \/ \E w \in DOMAIN batch.workers : LockCounters(w)
    \/ \E w \in DOMAIN batch.workers : Count(w)
    \/ \E w \in DOMAIN batch.workers : CheckKeys(w)
    \/ BatchReturn
    \/ Exit

SpecBatch == InitBatch /\ [][NextBatch]_vars

\* The batches of SpecDriver: every chapter "bad", but for at most the first
DriverProfiles ==
    {[f \in 1..DriverFiles |-> IF f = d THEN "done" ELSE "bad"] : d \in 0..1}

\* SpecDriver: main() on a batch of DriverFiles chapters, with api_type
\* "gemini" or "mixed": process_files_sequentially, or
\* process_files_concurrently with two workers; in mixed mode the OpenAI
\* family may have no credential configured; cancellation of a concurrent
\* batch may be requested while it runs, by WorkerThread.stop() when the
\* batch was started from the GUI (WorkerThread._condense_novel, which runs
\* process_files_concurrently with a progress callback), by a
\* KeyboardInterrupt when it was started by main().
InitDriver ==
    /\ Construct("key_manager", OneKey[1], OneKey[2])
    /\ ThreadsInit
    /\ chapter = NoChapter
    /\ adapter_ok = {}
    /\ http = NoHttp
    /\ ledger = NoLedger
    /\ \E P \in DriverProfiles, t \in {"gemini", "mixed"}, n \in 1..2,
          configured \in BOOLEAN, ui \in {"cli", "gui"} :
          /\ ~configured => t = "mixed"
          /\ ui = "gui" => n = 2
          /\ batch = [NoBatch EXCEPT
                        !.mode = IF n = 1 THEN "sequential" ELSE "concurrent",
                        !.api_type = t, !.ui = ui,
                        !.openai = [errors |-> 0, skipped |-> ~configured],
                        !.profiles = P, !.next = 1,
                        !.workers = [w \in 1..n |-> IdleWorker],
                        !.ledger = [f \in 1..DriverFiles |-> "none"],
                        !.main = "running"]
    /\ budget = [threads |-> {}, calls |-> 0, reports |-> 0, successes |-> 0,
                 horizon |-> 0]

NextDriver ==
    \/ NextBatch
    \/ \E w \in DOMAIN batch.workers : Choose(w)
    \/ Stop
    \/ Interrupt

SpecDriver == InitDriver /\ [][NextDriver]_vars

\* The key_manager pool right after the last of n failed requests in a row
\* with each key: n = 20, both keys are skipped; n = 8, both keys are cooling
\* for 600 s
SpentPool(skipped) ==
    LET n == IF skipped THEN SKIP_THRESHOLD ELSE 8
    IN  /\ impl = "key_manager"
        /\ api_configs = [i \in 0..1 |-> [rpm |-> InitRpm(TwoKeys[1][i + 1])]]
        /\ max_rpm = TwoKeys[2]
        /\ lock = 0
        /\ request_timestamps = [i \in 0..1 |-> <<>>]
        /\ global_request_timestamps = <<>>
        /\ next_key_index = 0
        /\ skipped_keys = IF skipped THEN {0, 1} ELSE {}
        /\ success_rates = [i \in 0..1 |-> Iterate(n, SR_ONE)]
        /\ errors = [i \in 0..1 |-> n]
        /\ consecutive_errors = [i \in 0..1 |-> n]
        /\ cooling_until = [i \in 0..1 |-> Sec(km_cooling_time(n))]
        /\ key_errors = [i \in 0..1 |-> 0]
        /\ key_cooldowns = [i \in 0..1 |-> 0]

\* SpecLive: the pipeline of one chapter (on a new pool for a chapter of one
\* segment, on the worn pool of SpecWorn, or on a pool whose credentials are
\* all skipped or, for a chapter of one segment, all cooling when the run
\* begins; the clock runs until every wait of the pipeline is over) or the
\* driver on a batch (SpecBatch, with as many workers as there are threads in
\* Threads at most), with every thread that can take a step taking one in
\* the end: the operating system schedules every runnable thread, time.sleep
\* ends, and an HTTP request answers or times out (requests.post(...,
\* timeout=120)).
InitLive ==
    \/ /\ \E L \in Lengths :
             /\ chapter = NewChapter(L)
             /\ \/ Construct("key_manager", TwoKeys[1], TwoKeys[2]) /\ Chunks(L) = 1
                \/ WornPool
                \/ \E skipped \in BOOLEAN :
                      SpentPool(skipped) /\ (skipped \/ Chunks(L) = 1)
       /\ ThreadsInit
       /\ adapter_ok \in SUBSET (0..1)
       /\ http = NoHttp
       /\ ledger = NoLedger
       /\ batch = NoBatch
       /\ budget = [threads |-> {Worker}, calls |-> 2 * max_api_attempts,
                    reports |-> 0, successes |-> 0, horizon |-> LiveTime]
    \/ InitBatch /\ DOMAIN batch.workers \subseteq Threads
NextLive == NextPipeline \/ NextBatch
SpecLive == InitLive /\ [][NextLive]_vars /\ WF_vars(NextLive)

\* ------------------------------------------------------------------ ledger
\* stats.py: update_file_stats called by the workers of a concurrent batch,
\* each for the chapter it has processed (process_single_file calls it
\* holding no lock, and stats.py has none).  A statement "statistics[k] +=
\* v" is a read of statistics[k] and a later write of the sum: another
\* thread can run in between.  ledger.statistics is the statistics object,
\* ledger.todo the calls still to be made (in the order the workers make
\* them), ledger.applied the calls begun; a worker in update_file_stats has
\* the arguments of its call in "update", the counter it is at in "field" and
\* the value it has read in "tmp".
ledgerFrame ==
    UNCHANGED <<impl, budget, poolVars, now, threadVars, reports, successes,
                call_log, chapter, adapter_ok, batch, http>>

\* The counters update_file_stats adds to for a status, in the order of the
\* statements: "if status == "success": if is_first_attempt:
\* statistics["success_count"] += 1; ... statistics[
\* "total_characters_original"] += kwargs["original_length"]; statistics[
\* "total_characters_condensed"] += kwargs["condensed_length"]", "elif status
\* == "failed" and is_first_attempt: statistics["failed_count"] += 1"
CountersOf(status) ==
    CASE status = "success" ->
             <<"success_count", "total_characters_original",
               "total_characters_condensed">>
      [] status = "failed" -> <<"failed_count">>
      [] OTHER -> <<>>
\* What is added to the counter
Addend(field, u) ==
    CASE field = "total_characters_original" -> u.original_length
      [] field = "total_characters_condensed" -> u.condensed_length
      [] OTHER -> 1
\* "ratio = (kwargs["condensed_length"] / kwargs["original_length"]) * 100",
\* in whole per cent
Ratio(u) == (u.condensed_length * 100) \div u.original_length

IdleStats == [pc |-> "idle", update |-> <<>>, field |-> 0, tmp |-> 0]

\* update_file_stats(file_path, status, ...) is called:
\* "statistics["file_stats"][file_path] = file_stats"
StatsBegin(w) ==
    /\ ledger.workers[w].pc = "idle"
    /\ ledger.todo # <<>>
    /\ LET u == Head(ledger.todo)
       IN  ledger' = [ledger EXCEPT
                        !.todo = Tail(@),
                        !.applied = Append(@, u),
                        !.statistics.file_stats[u.file] = u.status,
                        !.workers[w] = IF CountersOf(u.status) = <<>> THEN IdleStats
                                       ELSE [pc |-> "load", update |-> u,
                                             field |-> 1, tmp |-> 0]]
    /\ ledgerFrame

\* "statistics[k] += v": statistics[k] is read
StatsLoad(w) ==
    /\ ledger.workers[w].pc = "load"
    /\ LET k == CountersOf(ledger.workers[w].update.status)[ledger.workers[w].field]
       IN  ledger' = [ledger EXCEPT !.workers[w].pc = "store",
                                    !.workers[w].tmp = ledger.statistics[k]]
    /\ ledgerFrame

\* "statistics[k] += v": the sum is written; the next statement
StatsStore(w) ==
    /\ ledger.workers[w].pc = "store"
    /\ LET me == ledger.workers[w]
           counters == CountersOf(me.update.status)
           k == counters[me.field]
       IN  ledger' = [ledger EXCEPT
                        !.statistics[k] = me.tmp + Addend(k, me.update),
                        !.workers[w] =
                            IF me.field < Len(counters)
                            THEN [me EXCEPT !.pc = "load", !.field = @ + 1]
                            ELSE IF me.update.status = "success"
                                    /\ me.update.original_length > 0
                            THEN [me EXCEPT !.pc = "append"]
                            ELSE IdleStats]
    /\ ledgerFrame

\* "statistics["condensation_ratios"].append(ratio)" and the return
StatsAppend(w) ==
    /\ ledger.workers[w].pc = "append"
    /\ ledger' = [ledger EXCEPT
                    !.statistics.condensation_ratios =
                        Append(@, Ratio(ledger.workers[w].update)),
                    !.workers[w] = IdleStats]
    /\ ledgerFrame

\* finalize_statistics(): success_count and failed_count are counted again
\* from file_stats
finalize_statistics(st) ==
    [st EXCEPT
        !.success_count =
            Cardinality({f \in DOMAIN st.file_stats :
                            st.file_stats[f] \in {"success", "success-cached",
                                                  "success-directory", "success-short"}}),
        !.failed_count =
            Cardinality({f \in DOMAIN st.file_stats : st.file_stats[f] = "failed"}),
        !.end_time = 1]

\* main(): "finalize_statistics()" after the batch
Finalize ==
    /\ ledger.todo = <<>>
    /\ \A w \in DOMAIN ledger.workers : ledger.workers[w].pc = "idle"
    /\ ledger.statistics.end_time = 0
    /\ ledger' = [ledger EXCEPT !.statistics = finalize_statistics(@)]
    /\ ledgerFrame

\* reset_statistics()
reset_statistics ==
    [success_count |-> 0, failed_count |-> 0, total_characters_original |-> 0,
     total_characters_condensed |-> 0, condensation_ratios |-> <<>>,
     file_stats |-> [f \in 1..LedgerFiles |-> "none"], end_time |-> 0]

\* The calls of update_file_stats of a batch of LedgerFiles chapters, each
\* condensed with success (a chapter of 200 characters made one of 100) or
\* failed
LedgerUpdates ==
    {[f \in 1..LedgerFiles |->
         [file |-> f, status |-> IF f \in S THEN "success" ELSE "failed",
          original_length |-> 200, condensed_length |-> 100]] :
        S \in SUBSET (1..LedgerFiles)}

\* SpecLedger: two workers of process_files_concurrently record the outcomes
\* of the chapters of a batch.
InitLedger ==
    /\ Construct("key_manager", OneKey[1], OneKey[2])
    /\ ThreadsInit
    /\ chapter = NoChapter
    /\ adapter_ok = {}
    /\ http = NoHttp
    /\ batch = NoBatch
    /\ \E U \in LedgerUpdates :
          ledger = [statistics |-> reset_statistics,
                    workers |-> [w \in 1..2 |-> IdleStats],
                    todo |-> U, applied |-> <<>>]
    /\ budget = [threads |-> {}, calls |-> 0, reports |-> 0, successes |-> 0,
                 horizon |-> 0]

NextLedger ==
    \/ \E w \in DOMAIN ledger.workers : StatsBegin(w)
    \/ \E w \in DOMAIN ledger.workers : StatsLoad(w)
    \/ \E w \in DOMAIN ledger.workers : StatsStore(w)
    \/ \E w \in DOMAIN ledger.workers : StatsAppend(w)
    \/ Finalize

SpecLedger == InitLedger /\ [][NextLedger]_vars

\* ------------------------------------------------------------------- paths
\* A path is the sequence of its components.  os.path.basename, dirname, join
basename(path) == path[Len(path)]
dirname(path) == SubSeq(path, 1, Len(path) - 1)
join(dir, name) == dir \o <<name>>

\* The .txt files below the input directory "book", in the order of
\* files_to_process.sort()
Tree ==
    << <<"book", "001.txt">>, <<"book", "002.txt">>,
       <<"book", "vol1", "001.txt">>, <<"book", "vol1", "002.txt">>,
       <<"book", "vol2", "001.txt">>, <<"book", "vol2", "002.txt">> >>
\* The entries of Tree whose index is in S, in the order of Tree
RECURSIVE Listed(_, _)
Listed(S, n) ==
    IF n = 0 THEN <<>>
    ELSE IF n \in S THEN Append(Listed(S, n - 1), Tree[n]) ELSE Listed(S, n - 1)

\* get_output_file_path(file_path) with the module's OUTPUT_DIR (<<>>: None)
get_output_file_path(file_path, dir) ==
    LET output_dir == IF dir = <<>> THEN join(dirname(file_path), "condensed") ELSE dir
    IN  join(output_dir, basename(file_path))
\* create_cache_for_file: the sidecar of file_path
cache_file(file_path, dir) ==
    join(join(dirname(get_output_file_path(file_path, dir)), ".cache"),
         basename(file_path) \o ".json")

\* process_single_file of the next chapter of the list: the output file and
\* the sidecar the chapter's worker writes are computed from the chapter's path
ResolvePaths ==
    /\ batch.main = "listed"
    /\ Len(batch.output_files) < Len(batch.files_to_process)
    /\ LET file_path == batch.files_to_process[Len(batch.output_files) + 1]
       IN  batch' = [batch EXCEPT
               !.output_files = Append(@, get_output_file_path(file_path, batch.OUTPUT_DIR)),
               !.cache_files = Append(@, cache_file(file_path, batch.OUTPUT_DIR))]
    /\ UNCHANGED <<impl, budget, poolVars, now, threadVars, reports, successes,
                   call_log, chapter, adapter_ok, http, ledger>>

\* SpecPaths: main() was given the directory "book" (os.walk collects the
\* .txt files of the whole tree) or "book" with a pattern (glob collects files
\* of "book" itself), with or without --output.
InitPaths ==
    /\ chapter = NoChapter /\ adapter_ok = {} /\ http = NoHttp /\ ledger = NoLedger
    /\ Construct("key_manager", OneKey[1], OneKey[2])
    /\ ThreadsInit
    /\ budget = [threads |-> {}, calls |-> 0, reports |-> 0, successes |-> 0,
                 horizon |-> 0]
    /\ \E S \in SUBSET (DOMAIN Tree) : \E pattern, output \in BOOLEAN :
          /\ S # {}
          /\ pattern => \A n \in S : Len(Tree[n]) = 2
          /\ batch = [NoBatch EXCEPT
                 !.main = "listed",
                 !.files_to_process = Listed(S, Len(Tree)),
                 !.OUTPUT_DIR = IF output THEN <<"out">>
                                ELSE IF pattern THEN <<"out_default">>
                                ELSE <<"book", "book_out">>]

SpecPaths == InitPaths /\ [][ResolvePaths]_vars

\* ------------------------------------------------------------------ claims
\* The calls that returned key i
GrantsOf(i) == {n \in DOMAIN call_log : call_log[n].ret = "key" /\ call_log[n].key = i}
AllGrants == {n \in DOMAIN call_log : call_log[n].ret = "key"}
\* Those of the calls in G that returned in the 60 s that begin at clock from
InWindow(G, from) ==
    {n \in G : call_log[n].end >= from /\ call_log[n].end <= from + WINDOW}

\* C1: for every credential and every interval of 60 seconds (it is enough to
\* take the intervals that begin when a call returns the credential), the
\* number of get_key_config calls that return the credential within the
\* interval is at most the credential's rpm, whatever the interleaving of the
\* calling threads.
C1_KeyRateLimit ==
    \A i \in Keys : \A a \in GrantsOf(i) :
        Cardinality(InWindow(GrantsOf(i), call_log[a].end)) <= api_configs[i].rpm
\* A credential was returned as often as its rpm allows, a further call had
\* to wait for it, and got it once the 60 s were over.
C1_Witness ==
    \E i \in Keys : \E a \in GrantsOf(i) : \E b \in GrantsOf(i) :
        /\ Cardinality(InWindow(GrantsOf(i), call_log[a].end)) = api_configs[i].rpm
        /\ call_log[b].start <= call_log[a].end + WINDOW
        /\ call_log[b].waited > 0
        /\ call_log[b].end > call_log[a].end + WINDOW

\* C2: for every interval of 60 seconds, the number of get_key_config calls of
\* the pool that return a credential within the interval is at most max_rpm,
\* whatever the interleaving of the calling threads.
C2_GlobalRateLimit ==
    \A a \in AllGrants :
        Cardinality(InWindow(AllGrants, call_log[a].end)) <= max_rpm
\* The pool handed out max_rpm credentials, a further call found a key with
\* room but the pool full, waited, and was served once the 60 s were over.
C2_Witness ==
    \E a \in AllGrants : \E b \in AllGrants :
        /\ Cardinality(InWindow(AllGrants, call_log[a].end)) = max_rpm
        /\ call_log[b].start <= call_log[a].end + WINDOW
        /\ call_log[b].waited > 0
        /\ call_log[b].end > call_log[a].end + WINDOW
        /\ Cardinality(InWindow(GrantsOf(call_log[b].key), call_log[a].end))
             < api_configs[call_log[b].key].rpm

\* Thread t's call returns key i in this step
Returned(t, i) ==
    /\ pc[t] = "poll"
    /\ pc'[t] = "idle"
    /\ call_log'[call_no[t]].ret = "key"
    /\ call_log'[call_no[t]].key = i

\* C3: a credential that is in skipped_keys stays there, and no
\* get_key_config call returns it from then on.
C3_SkippedForGood ==
    [][/\ skipped_keys \subseteq skipped_keys'
       /\ \A t \in Threads : \A i \in skipped_keys : ~Returned(t, i)]_vars
\* A key_manager call that began when the skipped credential was no longer
\* cooling and had an empty window has polled and was sent to sleep.
C3_Witness ==
    /\ impl = "key_manager"
    /\ \E t \in Threads : \E i \in skipped_keys :
          /\ pc[t] = "sleep"
          /\ wait_attempts[t] > 0
          /\ start_time[t] >= cooling_until[i]
          /\ request_timestamps[i] = <<>>

\* C4: get_key_config never returns a credential whose cooling period ends
\* after the clock value of the selection; a credential that was cooling is
\* returned again only once its cooling_until is at or before the clock.
C4_NeverWhileCooling ==
    [][\A t \in Threads : \A i \in Keys :
          Returned(t, i) =>
              IF impl = "key_manager" THEN cooling_until[i] <= now
              ELSE key_cooldowns[i] <= now]_vars
\* A call began while the only credential was cooling, waited, and got the
\* credential when the cooling period was over.
C4_Witness ==
    /\ impl = "key_manager"
    /\ \E n \in DOMAIN call_log :
          /\ call_log[n].ret = "key"
          /\ call_log[n].waited > 0
          /\ cooling_until[call_log[n].key] > call_log[n].start
          /\ cooling_until[call_log[n].key] <= call_log[n].end

\* The clock value at which the first request of the log was recorded
FirstStamp == call_log[1].end
\* The longest a call is to last when it gets no key: timeout_sec and one
\* last sleep
GiveUpAfter == Sec(timeout_sec) + Sec(MAX_WAIT_SECONDS)

\* Scenario S1, calls 1 to 3: the credential is returned without waiting
S1_FirstThree(n) ==
    /\ call_log[n].ret \in {"pending", "key"}
    /\ call_log[n].ret = "key" => call_log[n].waited = 0 /\ call_log[n].end = call_log[n].start
    /\ call_log[n].ret = "pending" => now = call_log[n].start
\* Scenario S1, calls 4 and 5: no credential before the first recorded
\* request is more than 60 s old
S1_NotBefore(n) ==
    call_log[n].ret = "key" => call_log[n].end > FirstStamp + WINDOW
\* Scenario S1, calls 4 and 5: the call does not give up, and has the
\* credential at its first poll after the first request has aged out
S1_ThenServed(n) ==
    /\ call_log[n].ret # "None"
    /\ call_log[n].ret = "pending" => now <= FirstStamp + WINDOW + Sec(MAX_WAIT_SECONDS)

C6_GivesUpInTime ==
    \A n \in DOMAIN call_log :
        call_log[n].ret = "None" => call_log[n].end - call_log[n].start <= GiveUpAfter

\* This step belongs to a call of thread t and does not return a credential:
\* the call is entered, polls without finding a key, wakes up, or returns None
UnservedStep(t) == pc'[t] # pc[t] /\ ~\E i \in Keys : Returned(t, i)
\* q2 is what is left of q after records were dropped from its head
RECURSIVE IsSuffix(_, _)
IsSuffix(q2, q) == q2 = q \/ (q # <<>> /\ IsSuffix(q2, Tail(q)))

\* C7: a get_key_config call that ends in None adds no timestamp to the
\* window of any credential or of the pool (expired ones may be dropped),
\* and leaves next_key_index, the error counters, the cooling periods and
\* skipped_keys as they were: so does every step of a call that does not
\* return a credential.
C7_TimeoutLeavesPool ==
    [][\A t \in Threads :
          UnservedStep(t) =>
              /\ \A i \in Keys : IsSuffix(request_timestamps'[i], request_timestamps[i])
              /\ IsSuffix(global_request_timestamps', global_request_timestamps)
              /\ UNCHANGED <<next_key_index, errors, consecutive_errors, key_errors,
                             cooling_until, success_rates, skipped_keys>>
              /\ \A i \in Keys : (key_cooldowns'[i] > now) = (key_cooldowns[i] > now)]_vars
\* A key_manager call that began while the windows held a fresh record has
\* polled, waited and returned None.
C7_Witness ==
    /\ impl = "key_manager"
    /\ Len(call_log) = 2
    /\ call_log[1].ret = "key"
    /\ call_log[2].start <= call_log[1].end + WINDOW
    /\ call_log[2].ret = "None"
    /\ call_log[2].waited > 0

\* C8: when every credential is in skipped_keys, a get_key_config call
\* returns None at once: it is never asleep between two polls.  (In SpecS3
\* errors are reported only while no call is in progress.)
C8_FailsFast ==
    all_skipped => \A t \in Threads : pc[t] # "sleep"

\* The error count the pool keeps for key k
ErrorCount(k) == IF impl = "key_manager" THEN errors[k] ELSE key_errors[k]

\* C9 as stated: a credential is skipped once report_error has brought its
\* total error count to 20 or more, and a credential whose count is below 20
\* is never skipped.
C9_AsStated ==
    \A k \in Keys : k \in skipped_keys <=> ErrorCount(k) >= SKIP_THRESHOLD

\* C9, amended: after the report_error call that brings a credential's error
\* count to 20 or more the credential is skipped, and a credential becomes
\* skipped in no other way; with key_manager, whose count is never reset, a
\* credential whose count is below 20 is never skipped (with api_manager
\* report_success resets the count, also of a skipped credential); when no
\* unskipped credential is left the pool is session-fatal (all_skipped).
C9_SkipAtThreshold ==
    [][\A k \in Keys :
          /\ ErrorCount(k)' >= SKIP_THRESHOLD => k \in skipped_keys'
          /\ k \in skipped_keys' \ skipped_keys => ErrorCount(k)' >= SKIP_THRESHOLD
          /\ impl = "key_manager" /\ ErrorCount(k)' < SKIP_THRESHOLD
               => k \notin skipped_keys']_vars
\* The twentieth error of the credential has been reported and it is skipped.
C9_Witness ==
    \E k \in Keys :
        /\ ErrorCount(k) = SKIP_THRESHOLD
        /\ k \in skipped_keys
        /\ reports >= SKIP_THRESHOLD

\* C10: with credential A (key 0) always failing and credential B (key 1)
\* always succeeding, one chapter ends with outcome success, A's total error
\* count 1 (one surfaced failure) and B's total error count 0.
C10_ErrorCountedOnce ==
    (adapter_ok = {1} /\ chapter.stage = "done") =>
        /\ chapter.outcome = "success"
        /\ errors[0] = 1
        /\ errors[1] = 0
\* The chapter, sent in one request, is done: A failed, B succeeded.
C10_Witness ==
    /\ adapter_ok = {1}
    /\ chapter.stage = "done"
    /\ chapter.chunks = 1
    /\ chapter.outcome = "success"
    /\ Len(call_log) = 2
    /\ call_log[1].key = 0
    /\ call_log[2].key = 1

\* The attempt numbered a (from 0) of the chapter gave a result: the request
\* for its last segment was answered
Yielded(a) ==
    \E n \in DOMAIN chapter.requests :
        /\ chapter.requests[n].attempt = a
        /\ chapter.requests[n].chunk = chapter.chunks
        /\ chapter.requests[n].ok
\* The get_key_config calls made during attempt a
CallsOf(a) ==
    {c \in DOMAIN call_log :
        /\ c >= chapter.acquired[a + 1]
        /\ a + 2 <= Len(chapter.acquired) => c < chapter.acquired[a + 2]}

\* C11: a chapter that reaches the condense step gets at most 3 attempts;
\* each attempt begins with a get_key_config call of its own, and every
\* request of the attempt is made with a key that a call of that attempt
\* returned; the chapter is done with outcome success at the first attempt
\* that gives a result, and with outcome failed only when no attempt gave a
\* result (and then three attempts were made, or every key is skipped).
C11_AttemptsBounded ==
    /\ Len(chapter.acquired) <= max_api_attempts
    /\ chapter.stage \notin {"none", "new", "attempt"}
          => Len(chapter.acquired) = chapter.api_attempt + 1
    /\ \A a, b \in DOMAIN chapter.acquired :
          a < b => chapter.acquired[a] < chapter.acquired[b]
    /\ \A n \in DOMAIN chapter.requests :
          LET r == chapter.requests[n]
          IN  /\ r.attempt + 1 \in DOMAIN chapter.acquired
              /\ r.call \in CallsOf(r.attempt)
              /\ call_log[r.call].ret = "key"
              /\ call_log[r.call].key = r.key
    /\ chapter.stage = "done" =>
          /\ chapter.outcome \in {"success", "failed"}
          /\ chapter.outcome = "success" <=> Yielded(chapter.api_attempt)
          /\ \A a \in 0..(chapter.api_attempt - 1) : ~Yielded(a)
          /\ chapter.outcome = "failed" =>
                chapter.api_attempt + 1 = max_api_attempts \/ all_skipped
\* Three attempts were made and none gave a result; or the chapter failed
\* in its first attempt because every key had become skipped.
C11_Witness ==
    /\ chapter.stage = "done"
    /\ \/ /\ chapter.outcome = "failed"
          /\ chapter.api_attempt = 2
          /\ Len(chapter.acquired) = 3
          /\ Len(chapter.requests) >= 2
       \/ /\ chapter.outcome = "failed"
          /\ chapter.api_attempt = 0
          /\ all_skipped

\* The requests of attempt a that were answered, in the order they were made
RECURSIVE Answered(_, _)
Answered(a, n) ==
    IF n = 0 THEN <<>>
    ELSE IF chapter.requests[n].attempt = a /\ chapter.requests[n].ok
    THEN Append(Answered(a, n - 1), n)
    ELSE Answered(a, n - 1)
\* ceil(L / 20000)
CeilDiv(L) ==
    CHOOSE n \in 0..L : n * max_chunk_length >= L /\ (n - 1) * max_chunk_length < L

\* C17: when the adapter has returned a text for a content of L characters,
\* the requests that were answered in that attempt are ceil(L/20000) in number
\* for L > 20000 and one for L <= 20000; they were made in index order for
\* consecutive slices of at most 20000 characters that begin at 0 and end at
\* L; no other request was made in the attempt when none failed; and the text
\* returned is the answers in that order with two newlines between them.
C17_SegmentsJoined ==
    (chapter.stage = "done" /\ chapter.outcome = "success") =>
        LET L == chapter.length
            ans == Answered(chapter.api_attempt, Len(chapter.requests))
            req(i) == chapter.requests[ans[i]]
            made == {n \in DOMAIN chapter.requests :
                        chapter.requests[n].attempt = chapter.api_attempt}
        IN  /\ Len(ans) = IF L > max_chunk_length THEN CeilDiv(L) ELSE 1
            /\ req(1).seg[1] = 0
            /\ req(Len(ans)).seg[2] = L
            /\ \A i \in DOMAIN ans :
                  /\ req(i).chunk = i
                  /\ req(i).seg[2] > req(i).seg[1]
                  /\ req(i).seg[2] - req(i).seg[1] <= max_chunk_length
                  /\ i > 1 => req(i).seg[1] = req(i - 1).seg[2]
            /\ (\A n \in made : chapter.requests[n].ok) => Cardinality(made) = Len(ans)
            /\ Len(chapter.result) = 2 * Len(ans) - 1
            /\ \A i \in DOMAIN ans :
                  /\ chapter.result[2 * i - 1].req = ans[i]
                  /\ chapter.result[2 * i - 1].seg = req(i).seg
                  /\ i > 1 => chapter.result[2 * i - 2] = Newlines
\* A content of 20001 characters was sent in two requests, both answered at
\* once, and the text returned has the two answers.
C17_Witness ==
    /\ chapter.stage = "done"
    /\ chapter.outcome = "success"
    /\ chapter.length = max_chunk_length + 1
    /\ Len(chapter.requests) = 2
    /\ chapter.requests[2].seg = <<max_chunk_length, max_chunk_length + 1>>
    /\ Len(chapter.result) = 3

SidecarMatches ==
    chapter.sidecar.state = "ok" /\ chapter.sidecar.hash = Md5(chapter.input)

\* C13: when a run without force has found no usable output file and reads
\* the chapter file (not empty): if the sidecar's content_hash equals the
\* hash of the file, the run records "success-cached" without a
\* get_key_config call or a request, and (the write succeeding) the output
\* file holds the sidecar's condensed_content; if the sidecar is missing,
\* cannot be read or has another hash, the run does not record
\* "success-cached" and does not write the sidecar's text.
C13_CacheServedOnMatch ==
    [][(chapter.stage = "read" /\ ~chapter.force /\ chapter.length > 0
            /\ chapter' # chapter) =>
          IF SidecarMatches
          THEN /\ chapter'.status = "success-cached"
               /\ call_log' = <<>>
               /\ chapter'.requests = <<>>
               /\ chapter'.sidecar = chapter.sidecar
               /\ chapter'.written.done =>
                     /\ chapter'.output.exists
                     /\ chapter'.output.text = chapter.sidecar.text
               /\ ~chapter.faulty => chapter'.written.done
          ELSE /\ chapter'.status # "success-cached"
               /\ ~(/\ chapter'.written.done
                    /\ chapter.sidecar.state = "ok"
                    /\ chapter'.output.text = chapter.sidecar.text)]_vars
\* The sidecar of the first run has served the second: the output file was
\* written from it without a call.
C13_Witness ==
    /\ chapter.run = 2
    /\ chapter.stage = "closed"
    /\ chapter.status = "success-cached"
    /\ SidecarMatches
    /\ chapter.written.done
    /\ chapter.output.text = chapter.sidecar.text
    /\ call_log = <<>>

C15_SuccessHasFiles ==
    (chapter.stage = "closed" /\ chapter.status = "success") =>
        /\ chapter.output.exists
        /\ chapter.output.text # <<>>
        /\ chapter.sidecar.state = "ok"
        /\ chapter.sidecar.text = chapter.output.text
\* "success" was recorded in the first run although the output file could
\* not be written.
C15_Witness ==
    /\ chapter.run = 1
    /\ chapter.stage = "closed"
    /\ chapter.status = "success"
    /\ chapter.faulty
    /\ ~chapter.output.exists
    /\ chapter.sidecar.state = "ok"

\* C16: after a run with force on (every file write succeeding), the
\* chapter's sidecar, if there is one that can be read, holds the text that
\* the run wrote to the output file; also when the run failed and the
\* sidecar is that of an earlier successful run.
C16_ForcedSidecarMatches ==
    (chapter.stage = "closed" /\ chapter.force /\ ~chapter.faulty
        /\ chapter.written.done /\ chapter.sidecar.state = "ok") =>
        chapter.sidecar.text = chapter.written.text
\* The first run succeeded and left a sidecar; the second, forced, failed
\* and wrote the stub, and the sidecar still holds the first run's text.
C16_Witness ==
    /\ chapter.run = 2
    /\ chapter.stage = "closed"
    /\ chapter.force /\ ~chapter.faulty
    /\ chapter.prev = "success"
    /\ chapter.status = "failed"
    /\ chapter.written.text = Stub
    /\ chapter.sidecar.state = "ok"
    /\ chapter.sidecar.text # Stub

\* finalize_statistics: the chapters whose ledger entry has a status in S
Counted(S) == Cardinality({f \in Files : batch.ledger[f] \in S})
SuccessStatuses == {"success", "success-cached", "success-directory", "success-short"}
OtherStatuses == {"skipped", "empty", "error"}
\* The chapters process_single_file returned True for
Succeeded_files == {f \in Files : batch.ledger[f] \in SuccessStatuses \cup {"skipped"}}

C20_ExitCodeTellsFailure ==
    batch.main = "exited" =>
        /\ batch.exit_code = 0 => \A f \in Files : f \in Succeeded_files
        /\ (\E f \in Files : batch.ledger[f] = "failed") => batch.exit_code # 0
\* The sequential run has ended with exit code 0 and a failed chapter.
C20_Witness ==
    /\ batch.main = "exited"
    /\ batch.mode = "sequential"
    /\ batch.exit_code = 0
    /\ batch.ledger[1] = "failed"
    /\ 1 \in batch.failed_files

\* ------------------------------------------------------------------ C24
\* The number of errors in a row the pool keeps for key k, and the end of
\* the cooling period it keeps for k
ConsecutiveCount(k) ==
    IF impl = "key_manager" THEN consecutive_errors[k] ELSE key_errors[k]
CoolEnd(k) == IF impl = "key_manager" THEN cooling_until[k] ELSE key_cooldowns[k]
\* A step that is a report_error of kind general for key k (key_manager's
\* report_error has no kind: each of its errors is a general one)
GeneralError(k) ==
    /\ reports' = reports + 1
    /\ km_report_error(k) \/ am_report_error(k, "general")
\* The cooling period the two classes give after ce errors in a row
ClassThreshold == IF impl = "key_manager" THEN 3 ELSE 5
ClassCooldown(ce) ==
    IF impl = "key_manager" THEN Min2(30 * Pow2(ce - 3), 600)
    ELSE Min2(30 * Pow2(Min2(ce - 5, 4)), 1800)

\* C24 as stated: a general report_error sets a cooldown only when the
\* consecutive error count after the increment is at least 5, and then of
\* min(30 * 2^min(consecutive_errors - 5, 4), 1800) seconds; with fewer than
\* 5 errors in a row and fewer than 20 in total no cooldown is set and an
\* eligible credential stays eligible.
C24_AsStated ==
    [][\A k \in Keys : GeneralError(k) =>
          LET ce == ConsecutiveCount(k)'
          IN  /\ CoolEnd(k)' # CoolEnd(k) =>
                    /\ ce >= 5
                    /\ CoolEnd(k)' = now + Sec(Min2(30 * Pow2(Min2(ce - 5, 4)), 1800))
              /\ (ce < 5 /\ ErrorCount(k)' < SKIP_THRESHOLD) =>
                    /\ CoolEnd(k)' = CoolEnd(k)
                    /\ Eligible(k) => Eligible(k)']_vars

\* C24, amended: with api_manager a general report_error sets a cooldown
\* exactly when the count after the increment is at least 5 and below 20,
\* of min(30 * 2^min(count - 5, 4), 1800) seconds; with key_manager exactly
\* when it is at least 3, of min(30 * 2^(count - 3), 600) seconds; below
\* the class's threshold (and below 20 errors in total) no cooldown is set
\* and an eligible credential stays eligible.
C24_CooldownPerClass ==
    [][\A k \in Keys : GeneralError(k) =>
          LET ce == ConsecutiveCount(k)'
              cools == /\ ce >= ClassThreshold
                       /\ impl = "api_manager" => ce < SKIP_THRESHOLD
          IN  /\ cools => CoolEnd(k)' = now + Sec(ClassCooldown(ce))
              /\ ~cools => CoolEnd(k)' = CoolEnd(k)
              /\ (ce < ClassThreshold /\ ErrorCount(k)' < SKIP_THRESHOLD) =>
                    (Eligible(k) => Eligible(k)')]_vars
\* In each class a credential has been cooled for the longest period: the
\* count of errors in a row is past the point where the cap applies.
C24_Witness ==
    \E k \in Keys :
        /\ ~(k \in skipped_keys)
        /\ \/ impl = "key_manager" /\ consecutive_errors[k] = 8
                /\ cooling_until[k] = now + Sec(600)
           \/ impl = "api_manager" /\ key_errors[k] = 9
                /\ key_cooldowns[k] = now + Sec(480)

\* ------------------------------------------------------------------ C25
\* A step that is a report_success
SuccessStep == successes' = successes + 1
\* What a report_success leaves alone in both classes
SuccessFrame ==
    /\ skipped_keys' = skipped_keys
    /\ request_timestamps' = request_timestamps
    /\ global_request_timestamps' = global_request_timestamps
    /\ api_configs' = api_configs /\ max_rpm' = max_rpm
    /\ next_key_index' = next_key_index
    /\ \A j \in Keys : CoolEnd(j)' = CoolEnd(j)
\* The success rate after a success: 0.9 * rate + 0.1, in units of 1/SR_ONE
RateAfterSuccess(r) == (9 * r) \div 10 + SR_ONE \div 10

\* C25 as stated: report_success(key) sets the credential's consecutive
\* error count to 0 and its success rate to 0.9*rate + 0.1, and leaves its
\* total error count, its cooling end, the skipped set, both rolling windows
\* and every other credential's record as they were.
C25_AsStated ==
    [][SuccessStep =>
         \E k \in Keys :
            /\ ConsecutiveCount(k)' = 0
            /\ success_rates'[k] = RateAfterSuccess(success_rates[k])
            /\ ErrorCount(k)' = ErrorCount(k)
            /\ SuccessFrame
            /\ \A j \in Keys \ {k} :
                 /\ ConsecutiveCount(j)' = ConsecutiveCount(j)
                 /\ ErrorCount(j)' = ErrorCount(j)
                 /\ success_rates'[j] = success_rates[j]]_vars

\* C25, amended: with key_manager report_success(key) does what is stated;
\* with api_manager, which keeps one error count per credential (the one
\* compared with 20) and no success rate, it sets that count to 0 and
\* changes nothing else.
C25_SuccessFrame ==
    [][SuccessStep =>
         \E k \in Keys :
            /\ ConsecutiveCount(k)' = 0
            /\ IF impl = "key_manager"
               THEN /\ success_rates'[k] = RateAfterSuccess(success_rates[k])
                    /\ errors' = errors
                    /\ key_errors' = key_errors /\ key_cooldowns' = key_cooldowns
               ELSE /\ success_rates' = success_rates
                    /\ errors' = errors /\ consecutive_errors' = consecutive_errors
                    /\ cooling_until' = cooling_until
            /\ SuccessFrame
            /\ \A j \in Keys \ {k} :
                 /\ ConsecutiveCount(j)' = ConsecutiveCount(j)
                 /\ ErrorCount(j)' = ErrorCount(j)
                 /\ success_rates'[j] = success_rates[j]]_vars
\* In a key_manager pool of two credentials a success has been reported for
\* one after an error on each: its count in a row is 0 again, its total is
\* still 1, its rate has moved, and the other credential's record is as the
\* error left it.
C25_Witness ==
    /\ impl = "key_manager"
    /\ NumKeys = 2
    /\ successes = 1
    /\ \E k \in Keys : \E j \in Keys \ {k} :
        /\ consecutive_errors[k] = 0 /\ errors[k] = 1
        /\ success_rates[k] = 91000
        /\ consecutive_errors[j] = 1 /\ errors[j] = 1
        /\ success_rates[j] = 90000

\* ------------------------------------------------------------------ C28
\* The distance of key i from the round-robin cursor, going up cyclically
CyclicDistance(i) == (i - next_key_index) % NumKeys
\* The candidates of a poll have the same success rate and the same load
EvenCandidates ==
    \A i, j \in available_keys :
        /\ success_rates[i] = success_rates[j]
        /\ Len(KeyCleaned[i]) * api_configs[j].rpm
             = Len(KeyCleaned[j]) * api_configs[i].rpm

\* C28: the credential a key_manager get_key_config returns is a candidate
\* (eligible, with room in its window) of the largest score, and the cursor
\* is then just past it; when the candidates have equal success rates and
\* equal loads it is the first candidate at or after the cursor in cyclic
\* order; so in a pool of credentials with the same limit that had no
\* report, a call that finds every credential with room returns the one at
\* the cursor: they are handed out in rotation.
C28_MaxScoreThenRotate ==
    [][\A t \in Threads : \A i \in Keys :
          (impl = "key_manager" /\ Returned(t, i)) =>
             /\ i \in available_keys
             /\ \A j \in available_keys : km_score(j) <= km_score(i)
             /\ next_key_index' = (i + 1) % NumKeys
             /\ EvenCandidates =>
                  \A j \in available_keys : CyclicDistance(i) <= CyclicDistance(j)
             /\ ( /\ \A j \in Keys : api_configs[j].rpm = api_configs[i].rpm
                  /\ reports = 0
                  /\ available_keys = Keys ) => i = next_key_index]_vars
\* Five calls on three credentials with the same limit came back with the
\* credentials in rotation, the cursor is past the last one.
C28_Witness ==
    /\ NumKeys = 3
    /\ Len(call_log) = 5
    /\ \A n \in 1..5 : call_log[n].ret = "key" /\ call_log[n].key = (n - 1) % 3
    /\ next_key_index = 2
    /\ reports = 0

\* ------------------------------------------------------------------ C29
\* The ceiling has been computed for the pool
Computed == batch.max_concurrency # 0
\* floor(sum of rpm / d), at least 1
RpmShare(d) == Max2(1, SumRpm(Keys) \div d)

IsQuota(answer) == quota_delay(http.family, answer) >= 0
AllQuota == \A n \in DOMAIN http.answers : IsQuota(http.answers[n])

AdapterBounded ==
    /\ http.sent <= 3
    /\ http.stage = "loop" => http.iter = http.sent
    /\ http.stage = "returned" =>
          /\ http.result \in {"text", "None"}
          /\ http.result = "text" =>
               http.answers[Len(http.answers)] = "ok"
          /\ http.result = "None" => http.sent = 3
CallsIn(K, from) ==
    {n \in DOMAIN chapter.requests :
        /\ chapter.requests[n].key \in K
        /\ chapter.requests[n].at >= from
        /\ chapter.requests[n].at <= from + WINDOW}
RECURSIVE HttpSent(_)
HttpSent(S) ==
    IF S = {} THEN 0
    ELSE LET n == CHOOSE x \in S : TRUE
         IN chapter.requests[n].sent + HttpSent(S \ {n})

\* C23: in every interval of 60 seconds (it is enough to take those that
\* begin with an adapter call) the HTTP requests sent with a credential,
\* the requests of every segment and every retry inside the adapter
\* included, are at most the credential's rpm, and those sent with all
\* credentials of the pool at most max_rpm.
C23_HttpWithinLimits ==
    \A a \in DOMAIN chapter.requests :
        LET from == chapter.requests[a].at
        IN  /\ \A c \in Keys : HttpSent(CallsIn({c}, from)) <= api_configs[c].rpm
            /\ HttpSent(CallsIn(Keys, from)) <= max_rpm
\* The two segments of a chapter were sent and answered within one minute
\* with the one credential of rpm 1 that a single get_key_config call had
\* returned.
C23_Witness ==
    /\ chapter.stage = "done"
    /\ chapter.outcome = "success"
    /\ chapter.chunks = 2
    /\ Len(chapter.requests) = 2
    /\ Len(call_log) = 1
    /\ \A n \in 1..2 : chapter.requests[n].key = call_log[1].key
                       /\ chapter.requests[n].ok
                       /\ chapter.requests[n].at <= call_log[1].end + WINDOW
    /\ api_configs[call_log[1].key].rpm = 1

\* ------------------------------------------------------------------ C30
\* The text of the chapter file is empty once white space is trimmed
EmptyAfterTrim == chapter.length = 0 \/ chapter.input.blank

\* C30: a chapter file whose text is empty after trimming white space ends
\* with status "empty", without a get_key_config call and without a request
\* to the API; it is recorded neither as "success-short" nor as "failed".
C30_BlankIsEmpty ==
    (chapter.stage = "closed" /\ EmptyAfterTrim) =>
        /\ chapter.status = "empty"
        /\ chapter.acquired = <<>> /\ call_log = <<>>
        /\ chapter.requests = <<>>
\* A file of 100 characters of white space was closed as "failed" after
\* three attempts, without a get_key_config call and without a request.
C30_Witness ==
    /\ chapter.stage = "closed"
    /\ chapter.input.blank
    /\ chapter.length = MIN_CONTENT_CHARS
    /\ chapter.status = "failed"
    /\ chapter.api_attempt = max_api_attempts - 1
    /\ call_log = <<>>
    /\ chapter.requests = <<>>


\* Both families have a credential that is not skipped
BothLive == ~all_skipped /\ ~batch.openai.skipped
\* C21: in mixed mode, a chapter whose family is chosen while both families
\* have live credentials goes to the Gemini pool if its index (file_index,
\* the chapter's position in the list counted from 1) is even and to the
\* OpenAI pool if it is odd, so that consecutive chapters alternate.
C21_ParityAssignment ==
    [][\A w \in DOMAIN batch.workers :
          (/\ batch.api_type = "mixed"
           /\ batch.workers[w].stage = "choose"
           /\ batch'.workers[w].stage = "attempt"
           /\ BothLive)
          => batch'.workers[w].family =
                 IF batch.workers[w].file % 2 = 0 THEN "gemini" ELSE "openai"]_vars
\* Two consecutive chapters are being processed, the odd one by the OpenAI
\* family and the even one by the Gemini family
C21_Witness ==
    /\ batch.api_type = "mixed"
    /\ BothLive
    /\ batch.workers[1] = [stage |-> "attempt", file |-> 3, api_attempt |-> 1,
                           status |-> FALSE, family |-> "openai", calls |-> 1,
                           one_live |-> FALSE]
    /\ batch.workers[2] = [stage |-> "attempt", file |-> 4, api_attempt |-> 0,
                           status |-> FALSE, family |-> "gemini", calls |-> 0,
                           one_live |-> FALSE]
\* C22: after cancellation is requested during a concurrent batch, no
\* chapter that has not yet started is handed to the pipeline, and when the
\* batch returns every unclaimed chapter is recorded as failed.
C22_StopHalts ==
    [][batch.cancel # "none" =>
          /\ batch'.next = batch.next
          /\ batch'.main = "returned" =>
                \A f \in Files : f >= batch.next =>
                    batch'.ledger[f] = "failed" /\ f \in batch'.failed_files]_vars
\* Cancellation was requested through WorkerThread.stop(), chapters were
\* started after the request, and the batch went through every chapter
C22_Witness ==
    /\ batch.cancel = "stop"
    /\ batch.late
    /\ batch.main = "returned"
    /\ batch.completed_count = Len(batch.profiles)
    /\ \A f \in Files : batch.ledger[f] # "none"


\* C31: when the chapter file cannot be read, the run records the chapter
\* with outcome "error" and writes a diagnostic message in place of its
\* output file.
C31_UnreadableIsError ==
    (chapter.stage = "closed" /\ ~chapter.input.readable
        /\ chapter.status # "skipped") =>
        /\ chapter.status = "error"
        /\ chapter.written.done
\* The file could not be opened: the run recorded "empty" and wrote nothing
C31_Witness ==
    /\ chapter.stage = "closed"
    /\ ~chapter.input.readable
    /\ chapter.length > 0
    /\ chapter.status = "empty"
    /\ ~chapter.written.done
    /\ ~chapter.output.exists

\* C32: a run that records success-directory or success-short (its file
\* writes succeeding) has called get_key_config for no key and made no
\* request, has left the cache sidecar as it was, and has left an output
\* file whose content is the text of the chapter file, whatever the encoding
\* the file was read in.
C32_CopiedVerbatim ==
    [][(/\ chapter.stage = "read"
        /\ ~chapter.faulty
        /\ chapter'.stage = "closed"
        /\ chapter'.status \in {"success-directory", "success-short"})
       => /\ call_log' = <<>>
          /\ chapter'.requests = <<>>
          /\ chapter'.sidecar = chapter.sidecar
          /\ chapter'.output = [exists |-> TRUE, text |-> Copy(chapter)]]_vars
\* A directory file in GBK was recorded success-directory and there is no
\* output file
C32_Witness ==
    /\ chapter.stage = "closed"
    /\ ~chapter.faulty
    /\ chapter.status = "success-directory"
    /\ chapter.input.encoding = "gbk"
    /\ call_log = <<>>
    /\ ~chapter.output.exists

\* The chapter file was edited between the first run and the second
EditedSince == chapter.run = 2 /\ chapter.input.id # 1
\* C40: with force off, a run that follows an edit of the chapter file
\* reuses no result of the earlier run: it records neither "skipped" nor
\* "success-cached".
C40_ReuseOnlyIfUnchanged ==
    (chapter.stage = "closed" /\ ~chapter.force /\ EditedSince) =>
        chapter.status \notin {"skipped", "success-cached"}
\* The first run succeeded, the file was edited, and the second run recorded
\* "skipped", leaving the output of the first run
C40_Witness ==
    /\ chapter.stage = "closed"
    /\ ~chapter.force /\ ~chapter.faulty
    /\ EditedSince
    /\ chapter.prev = "success"
    /\ chapter.status = "skipped"
    /\ chapter.sidecar.state = "ok"
    /\ chapter.sidecar.hash # Md5(chapter.input)
    /\ call_log = <<>>

\* The family that alone has a valid key, "none" if both have or neither has
OnlyLive ==
    IF all_skipped /\ ~batch.openai.skipped THEN "openai"
    ELSE IF ~all_skipped /\ batch.openai.skipped THEN "gemini"
    ELSE "none"
\* The pool of the family has no valid key
Exhausted(family) ==
    IF family = "gemini" THEN all_skipped ELSE batch.openai.skipped
\* C33: in mixed mode, a chapter taken while one family only has live
\* credentials is dispatched to that family whatever the parity of its
\* index, and no chapter fails for want of a credential in its family while
\* the other family has one.
C33_LiveFamilyAbsorbs ==
    [][\A w \in DOMAIN batch.workers :
          /\ (/\ batch.api_type = "mixed"
              /\ batch.workers[w].one_live
              /\ OnlyLive # "none"
              /\ batch.workers[w].stage = "choose"
              /\ batch'.workers[w].stage = "attempt")
             => batch'.workers[w].family = OnlyLive
          /\ ~(/\ batch.api_type = "mixed"
               /\ batch.workers[w].stage = "attempt"
               /\ batch.workers[w].family \in {"gemini", "openai"}
               /\ batch.profiles[batch.workers[w].file] = "bad"
               /\ Exhausted(batch.workers[w].family)
               /\ OnlyLive # "none"
               /\ batch'.workers[w].stage = "count"
               /\ ~batch'.workers[w].status)]_vars
\* The OpenAI family has no credential and the Gemini credential is live:
\* chapter 1 went to the OpenAI family and failed without a request
C33_Witness ==
    /\ batch.api_type = "mixed"
    /\ batch.mode = "concurrent"
    /\ batch.openai = [errors |-> 0, skipped |-> TRUE]
    /\ ~all_skipped
    /\ \E w \in DOMAIN batch.workers :
          /\ batch.workers[w].stage = "count"
          /\ batch.workers[w].file = 1
          /\ batch.workers[w].one_live
          /\ batch.workers[w].family = "openai"
          /\ ~batch.workers[w].status
    /\ batch.ledger[1] = "failed"

\* C34: in mixed mode, every chapter that has to be condensed is dispatched
\* to one of the families gemini and openai and condense_novel_* is called
\* for it, in the concurrent driver and in the sequential one.
C34_DispatchedToOneFamily ==
    \A w \in DOMAIN batch.workers :
        (/\ batch.api_type = "mixed"
         /\ batch.workers[w].stage = "count"
         /\ batch.profiles[batch.workers[w].file] = "bad")
        => /\ batch.workers[w].family \in {"gemini", "openai"}
           /\ batch.workers[w].calls >= 1
\* The sequential driver in mixed mode: the chapter was handed to
\* process_single_file with api_type "mixed" and recorded "failed" without a
\* call of condense_novel_*
C34_Witness ==
    /\ batch.api_type = "mixed"
    /\ batch.mode = "sequential"
    /\ batch.workers[1].stage = "count"
    /\ batch.workers[1].file = 2
    /\ batch.workers[1].family = "mixed"
    /\ batch.workers[1].calls = 0
    /\ batch.ledger[2] = "failed"
    /\ ~all_skipped /\ ~batch.openai.skipped

\* C35: the progress callback is never called by a worker that holds a
\* lock (the pool lock, a ledger lock, or the lock of the driver's counters
\* and failed map).
C35_CallbackOutsideLocks ==
    batch.progress.calls > 0 => ~batch.progress.held
\* The callback was called for the first completed chapter by the worker
\* that held the lock of the counters
C35_Witness ==
    /\ batch.ui = "gui"
    /\ batch.completed_count = 1
    /\ batch.progress = [calls |-> 1, held |-> TRUE]
    /\ batch.lock = 0

\* update_file_stats applied as a whole, to the calls of us one after another
RECURSIVE OneAfterAnother(_, _)
OneAfterAnother(us, st) ==
    IF us = <<>> THEN st
    ELSE LET u == Head(us)
             filed == [st EXCEPT !.file_stats[u.file] = u.status]
         IN  OneAfterAnother(
                 Tail(us),
                 IF u.status = "success"
                 THEN [filed EXCEPT
                         !.success_count = @ + 1,
                         !.total_characters_original = @ + u.original_length,
                         !.total_characters_condensed = @ + u.condensed_length,
                         !.condensation_ratios = Append(@, Ratio(u))]
                 ELSE IF u.status = "failed"
                 THEN [filed EXCEPT !.failed_count = @ + 1]
                 ELSE filed)
\* C36: when the workers have recorded the outcomes of the batch and the
\* statistics are finalized, success_count, failed_count,
\* total_characters_original, total_characters_condensed and the number of
\* condensation_ratios are what the same calls of update_file_stats give when
\* made one after another: no update is lost.
C36_NoLostUpdate ==
    ledger.statistics # <<>> /\ ledger.statistics.end_time # 0 =>
        LET st == ledger.statistics
            ref == finalize_statistics(OneAfterAnother(ledger.applied, reset_statistics))
        IN  /\ st.success_count = ref.success_count
            /\ st.failed_count = ref.failed_count
            /\ st.total_characters_original = ref.total_characters_original
            /\ st.total_characters_condensed = ref.total_characters_condensed
            /\ Len(st.condensation_ratios) = Len(ref.condensation_ratios)
\* Three chapters were condensed, each of 200 characters: the total of the
\* original characters is 400, the addition of one worker being lost
C36_Witness ==
    /\ ledger.statistics # <<>>
    /\ ledger.statistics.end_time # 0
    /\ \A f \in 1..LedgerFiles : ledger.statistics.file_stats[f] = "success"
    /\ ledger.statistics.success_count = LedgerFiles
    /\ Len(ledger.statistics.condensation_ratios) = LedgerFiles
    /\ ledger.statistics.total_characters_original = 200 * (LedgerFiles - 1)

\* C37: within one batch, two chapters of the chapter list that have distinct
\* paths are given distinct output files and distinct cache sidecars
C37_DistinctOutputs ==
    \A i, j \in DOMAIN batch.output_files :
        batch.files_to_process[i] # batch.files_to_process[j] =>
            /\ batch.output_files[i] # batch.output_files[j]
            /\ batch.cache_files[i] # batch.cache_files[j]
\* The chapters vol1/001.txt and vol2/001.txt of one list have been given the
\* same output file and the same sidecar below the output directory
C37_Witness ==
    /\ batch.main = "listed"
    /\ batch.OUTPUT_DIR = <<"book", "book_out">>
    /\ \E i, j \in DOMAIN batch.output_files :
          /\ batch.files_to_process[i] = <<"book", "vol1", "001.txt">>
          /\ batch.files_to_process[j] = <<"book", "vol2", "001.txt">>
          /\ batch.output_files[i] = <<"book", "book_out", "001.txt">>
          /\ batch.output_files[j] = batch.output_files[i]
          /\ batch.cache_files[j] = batch.cache_files[i]

Ended ==
    /\ chapter.stage # "none" => chapter.stage = "done" /\ pc[Worker] = "idle"
    /\ batch.main # "none" => batch.main = "exited"
\* C39: every run ends: the pipeline of a chapter ends after at most three
\* attempts, whatever the API answers and also when every credential is
\* skipped, and the driver returns once every chapter of the list has ended
C39_RunEnds == <>Ended
\* A batch all of whose chapters failed has returned to main() and main()
\* has returned
C39_Witness ==
    /\ batch.main = "exited"
    /\ batch.success_count = 0
    /\ Cardinality(batch.failed_files) = Len(batch.profiles)
====
